---- MODULE Spec2Model ----
(***************************************************************************)
(* A model of the validating chain of nulltrek/coin: the Blockchain        *)
(* substrate (core/blockchain.rs), the consensus rules (consensus.rs),     *)
(* the UTXO pool and the Chain validator (chain.rs).                       *)
(*                                                                         *)
(* Modelling conventions                                                   *)
(*  - A byte string is a sequence of integers.  SHA-256 is modelled as an  *)
(*    ideal (collision free) hash: the digest of a byte string is          *)
(*    identified with the byte string it was computed from, so two hashes  *)
(*    are equal exactly when their preimages are.  The all-zero hash       *)
(*    (Hash::default) is the empty sequence, which is the digest of no     *)
(*    data.  The reading of a digest as a big-endian 256-bit integer is    *)
(*    the separate operator BE, scaled to HashBits bits.                   *)
(*  - An Ed25519 signature is the pair (signing key, signed message);      *)
(*    a key pair and its public key are the same small integer.            *)
(*  - Option<T> is a sequence of length 0 (None) or 1 (Some).              *)
(*  - u64 is scaled to ValueBits bits.  An overflowing addition aborts the *)
(*    call when the build has overflow checks (debug) and wraps when it    *)
(*    has not (release); the build is chosen in Init.                      *)
(***************************************************************************)
EXTENDS Integers, Sequences, FiniteSets, TLC

VARIABLES
    rules,            \* Chain.rules : ConsensusRules
    list,             \* Chain.chain.list : Vec<Block>
    utxos,            \* Chain.utxos.utxos : HashMap<(Hash, u32), Output>
    overflow_checks,  \* whether the build panics on integer overflow
    pc,               \* "idle" | "called" | "done" | "aborted"
    arg,              \* the block handed to add_block
    result,           \* what the call returned
    miner_pool,       \* Miner.pool : HashMap<Hash, Transaction>
    node              \* the threads, mutexes and channels of command_start

vars == <<rules, list, utxos, overflow_checks, pc, arg, result, miner_pool, node>>

\* ------------------------------------------------------------------ bounds

\* Longest chain explored (genesis included).
MaxHeight == 3

\* rules.base_coins of the chains explored (the default is 10000).
BaseCoins == 2

\* Width of a coin value (u64 in the source).
ValueBits == 3

\* Width of a hash read as an integer (256 in the source).
HashBits == 2

\* Width of a block's nonce (u32 in the source).
NonceBits == 1

\* Most transactions the miner's pool holds in the runs explored.
MaxPool == 3

\* Keys: 1 owns the genesis output and collects the coinbases, 2 is paid.
Keys == {1, 2}

RECURSIVE Pow2(_)
Pow2(n) == IF n = 0 THEN 1 ELSE 2 * Pow2(n - 1)

MaxValue == Pow2(ValueBits) - 1

\* ---------------------------------------------------------- byte encoding

RECURSIVE SumRange(_, _, _)
SumRange(s, lo, hi) ==
    IF lo > hi THEN 0
    ELSE IF lo = hi THEN s[lo]
    ELSE LET mid == (lo + hi) \div 2
         IN  SumRange(s, lo, mid) + SumRange(s, mid + 1, hi)

SumSeq(s) == SumRange(s, 1, Len(s))

RECURSIVE Concat(_)
Concat(ss) == IF ss = << >> THEN << >> ELSE Head(ss) \o Concat(Tail(ss))

\* A hash inside a record: its bytes, length-prefixed so that the encoding
\* stays injective although model digests differ in length.
EncHash(h) == <<Len(h)>> \o h

EncSignature(sig) == <<sig.key>> \o EncHash(sig.msg)

EncInput(input) ==
    EncHash(input.hash) \o <<input.index>> \o EncSignature(input.signature)

EncOutput(output) == <<output.value, output.pubkey>>

EncOption(opt) == IF opt = << >> THEN <<0>> ELSE <<1, opt[1]>>

\* bincode of TransactionData: u64 length, then the elements, per sequence.
EncTransactionData(data) ==
    <<Len(data.inputs)>>
        \o Concat([i \in 1..Len(data.inputs) |-> EncInput(data.inputs[i])])
        \o <<Len(data.outputs)>>
        \o Concat([i \in 1..Len(data.outputs) |-> EncOutput(data.outputs[i])])
        \o EncOption(data.timestamp)

EncTransaction(tx) == EncHash(tx.hash) \o EncTransactionData(tx.data)

EncBlockData(data) ==
    EncHash(data.prev_hash) \o <<data.nonce>> \o EncHash(data.top_hash)
        \o <<Len(data.transactions)>>
        \o Concat([i \in 1..Len(data.transactions) |->
                      EncTransaction(data.transactions[i])])

\* ------------------------------------------------------------------- hash

\* Hash::new: the ideal digest of a byte string.
HashNew(bytes) == bytes

\* Hash::default: 32 zero bytes.
ZeroHash == << >>

\* Hash::new(b"test"): the digest of bytes that encode no record.
TestHash == HashNew(<<0 - 1>>)

\* Hash::is_zero
is_zero(h) == h = ZeroHash

\* U256::from_be_bytes(hash.digest()), on HashBits bits.
BE(h) == SumSeq(h) % Pow2(HashBits)

\* ------------------------------------------------------------------- keys

\* KeyPair::sign
Sign(key, msg) == [key |-> key, msg |-> msg]

\* PublicKey::verify
verify(pubkey, msg, sig) == sig.key = pubkey /\ sig.msg = msg

\* ----------------------------------------------------------- transactions

None == << >>
Some(x) == <<x>>

TransactionData_new(inputs, outputs) ==
    [inputs |-> inputs, outputs |-> outputs, timestamp |-> None]

TransactionData_new_with_timestamp(inputs, outputs, timestamp) ==
    [inputs |-> inputs, outputs |-> outputs, timestamp |-> Some(timestamp)]

Transaction_new(data) ==
    [hash |-> HashNew(EncTransactionData(data)), data |-> data]

tx_is_hash_valid(tx) == HashNew(EncTransactionData(tx.data)) = tx.hash

is_coinbase(tx) == Len(tx.data.inputs) = 0

\* ----------------------------------------------------------------- blocks

compute_top_hash(transactions) ==
    HashNew(Concat([i \in 1..Len(transactions) |-> transactions[i].hash]))

BlockData_new(prev_hash, nonce, transactions) ==
    [prev_hash |-> prev_hash, nonce |-> nonce,
     top_hash |-> compute_top_hash(transactions),
     transactions |-> transactions]

Block_new(data) == [hash |-> HashNew(EncBlockData(data)), data |-> data]

block_is_hash_valid(block) == HashNew(EncBlockData(block.data)) = block.hash

is_top_hash_valid(block) ==
    compute_top_hash(block.data.transactions) = block.data.top_hash

\* ------------------------------------------------------------ u64 values

\* The outcome of a fallible step: a value, no value, or an aborted call.
Panic == 0 - 1

\* a + b on u64: aborts with overflow checks, wraps without.  An aborted
\* operand aborts the sum.
AddU64(a, b) ==
    IF a = Panic \/ b = Panic THEN Panic
    ELSE IF a + b > MaxValue
         THEN (IF overflow_checks THEN Panic ELSE (a + b) % (MaxValue + 1))
         ELSE a + b

\* Rust's a && b and a || b on "T" (true), "F" (false), "P" (the call
\* aborted while evaluating): the right operand is evaluated only when
\* the left one does not decide.
B(b) == IF b THEN "T" ELSE "F"
AndThen(a, b) == IF a = "T" THEN b ELSE a
OrElse(a, b) == IF a = "F" THEN b ELSE a

\* -------------------------------------------------------------- consensus

HalvingNone == [kind |-> "None", value |-> 0]
HalvingInf == [kind |-> "Inf", value |-> 0]
HalvingHeight(h) == [kind |-> "Height", value |-> h]

TargetMAX == Pow2(HashBits) - 1

RECURSIVE ShiftRight(_, _)
ShiftRight(x, n) == IF n = 0 THEN x ELSE ShiftRight(x \div 2, n - 1)

from_leading_zeros(count) == ShiftRight(TargetMAX, count)

ConsensusRules_new(target, base_coins, halving) ==
    [target |-> target, base_coins |-> base_coins, halving |-> halving]

\* validate_target comparing with < instead of <=.
validate_target_strict(r, hash) == BE(hash) < r.target

validate_target(r, hash) == BE(hash) <= r.target

\* a / b on u64: aborts when the divisor is zero, in every build.
DivU64(a, b) ==
    IF a = Panic \/ b = Panic \/ b = 0 THEN Panic ELSE a \div b

\* reward taking a zero period for no halving at all.
reward_zero_period(r, height) ==
    CASE r.halving.kind = "None" -> r.base_coins
      [] r.halving.kind = "Height" ->
            IF r.halving.value = 0 THEN r.base_coins
            ELSE DivU64(r.base_coins, AddU64(height \div r.halving.value, 1))
      [] r.halving.kind = "Inf" -> IF height = 0 THEN r.base_coins ELSE 0

\* ConsensusRules::reward; Panic for the panic!() of a zero period and for
\* (height / value) + 1 passing 2^w: the sum aborts with overflow checks
\* and wraps to 0 without, which aborts the division.
reward(r, height) ==
    CASE r.halving.kind = "None" -> r.base_coins
      [] r.halving.kind = "Height" ->
            IF r.halving.value = 0 THEN Panic
            ELSE DivU64(r.base_coins, AddU64(height \div r.halving.value, 1))
      [] r.halving.kind = "Inf" -> IF height = 0 THEN r.base_coins ELSE 0

\* ------------------------------------------------------------- blockchain

NoTx == Transaction_new(TransactionData_new(<< >>, << >>))

Max(S) == CHOOSE x \in S : \A y \in S : y <= x
Min(S) == CHOOSE x \in S : \A y \in S : x <= y

Blockchain_new(genesis) == <<genesis>>

height(l) == Len(l)

get_last_block(l) == l[Len(l)]

\* Blockchain::query_block: newest block first; heights count from 0.
LastBlock(hits) ==
    IF hits = {} THEN [found |-> FALSE, height |-> 0]
    ELSE [found |-> TRUE, height |-> Max(hits) - 1]

query_block(l, hash) == LastBlock({i \in 1..Len(l) : l[i].hash = hash})

\* Blockchain::query_tx: newest block first, the block's transactions in
\* order.
TxHits(block, hash) ==
    {j \in 1..Len(block.data.transactions) :
        block.data.transactions[j].hash = hash}

FirstHit(i, block, hash) ==
    [found |-> TRUE, height |-> i - 1,
     tx |-> block.data.transactions[Min(TxHits(block, hash))]]

LastHit(l, hash, hits) ==
    IF hits = {} THEN [found |-> FALSE, height |-> 0, tx |-> NoTx]
    ELSE FirstHit(Max(hits), l[Max(hits)], hash)

query_tx(l, hash) ==
    LastHit(l, hash, {i \in 1..Len(l) : TxHits(l[i], hash) # {}})

NoValue == [tag |-> "None", value |-> 0]
PanicValue == [tag |-> "Panic", value |-> 0]

RECURSIVE InputValueFrom(_, _, _, _)

\* value += ...: the sum so far, or the abort of the addition.
InputValueAdded(l, inputs, i, s) ==
    IF s = Panic THEN PanicValue ELSE InputValueFrom(l, inputs, i + 1, s)

\* One iteration of the loop, hit being what query_tx has returned.
InputValueStep(l, inputs, i, acc, hit) ==
    IF ~hit.found THEN NoValue
    ELSE IF Len(hit.tx.data.outputs) <= inputs[i].index THEN NoValue
    ELSE InputValueAdded(l, inputs, i,
             AddU64(acc, hit.tx.data.outputs[inputs[i].index + 1].value))

InputValueFrom(l, inputs, i, acc) ==
    IF i > Len(inputs) THEN [tag |-> "Some", value |-> acc]
    ELSE InputValueStep(l, inputs, i, acc, query_tx(l, inputs[i].hash))

\* Blockchain::get_tx_input_value
get_tx_input_value(l, tx) == InputValueFrom(l, tx.data.inputs, 1, 0)

RECURSIVE OutputValueFrom(_, _, _)
OutputValueFrom(outputs, i, acc) ==
    IF i > Len(outputs) \/ acc = Panic THEN acc
    ELSE OutputValueFrom(outputs, i + 1, AddU64(acc, outputs[i].value))

\* Blockchain::get_tx_output_value
get_tx_output_value(outputs) == OutputValueFrom(outputs, 1, 0)

NoTxValue == [tag |-> "None", input |-> 0, output |-> 0, fees |-> 0]
PanicTxValue == [tag |-> "Panic", input |-> 0, output |-> 0, fees |-> 0]
TransactionValue_new(input, output, fees) ==
    [tag |-> "Some", input |-> input, output |-> output, fees |-> fees]

\* Blockchain::get_tx_value
TxValueOf(input, output) ==
    IF input.tag = "None" THEN NoTxValue
    ELSE IF input.tag = "Panic" \/ output = Panic THEN PanicTxValue
    ELSE IF input.value > 0 /\ output > input.value THEN NoTxValue
    ELSE TransactionValue_new(input.value, output,
             IF input.value = 0 THEN 0 ELSE input.value - output)

get_tx_value(l, tx) ==
    TxValueOf(get_tx_input_value(l, tx), get_tx_output_value(tx.data.outputs))

\* impl Add for TransactionValue
TransactionValue_sum(input, output, fees) ==
    IF input = Panic \/ output = Panic \/ fees = Panic THEN PanicTxValue
    ELSE TransactionValue_new(input, output, fees)

TransactionValue_add(a, b) ==
    TransactionValue_sum(AddU64(a.input, b.input), AddU64(a.output, b.output),
                         AddU64(a.fees, b.fees))

RECURSIVE CollectionValueFrom(_, _, _, _)

\* acc = acc + result.unwrap()
CollectionValueAdded(l, txs, i, s) ==
    IF s.tag = "Panic" THEN s ELSE CollectionValueFrom(l, txs, i + 1, s)

\* One iteration of the loop, value being what get_tx_value has returned.
CollectionValueStep(l, txs, i, acc, value) ==
    IF value.tag # "Some" THEN value
    ELSE CollectionValueAdded(l, txs, i, TransactionValue_add(acc, value))

CollectionValueFrom(l, txs, i, acc) ==
    IF i > Len(txs) THEN acc
    ELSE IF is_coinbase(txs[i]) THEN CollectionValueFrom(l, txs, i + 1, acc)
    ELSE CollectionValueStep(l, txs, i, acc, get_tx_value(l, txs[i]))

\* Blockchain::get_tx_collection_value
get_tx_collection_value(l, txs) ==
    CollectionValueFrom(l, txs, 1, TransactionValue_new(0, 0, 0))

\* append pushing whatever it is given.
append_ok_any(l, block) == TRUE

\* Blockchain::append: whether the block is pushed, and the list after.
append_ok(l, block) == block.data.prev_hash = l[Len(l)].hash

\* append pushing the block even when it answers InvalidPrevHash.
append_always(l, block) == Append(l, block)

append(l, block) == IF append_ok(l, block) THEN Append(l, block) ELSE l

\* -------------------------------------------------------------- UTXO pool

\* UtxoPool::default
UtxoPool_default == [k \in {} |-> 0]

PoolKey(hash, index) == <<hash, index>>

\* The loop body the other way round: remove the entries the inputs name,
\* then insert the outputs.
update_tx_remove_first(pool, tx) ==
    [k \in (DOMAIN pool \ {PoolKey(tx.data.inputs[i].hash, tx.data.inputs[i].index) :
                               i \in 1..Len(tx.data.inputs)})
            \cup {PoolKey(tx.hash, i - 1) : i \in 1..Len(tx.data.outputs)} |->
        IF k[1] = tx.hash /\ k[2] < Len(tx.data.outputs)
        THEN tx.data.outputs[k[2] + 1] ELSE pool[k]]

\* One iteration of the loop of UtxoPool::update: insert every output of
\* tx, then remove every entry an input of tx names.
update_tx(pool, tx) ==
    LET created == {PoolKey(tx.hash, i - 1) : i \in 1..Len(tx.data.outputs)}
        consumed == {PoolKey(tx.data.inputs[i].hash, tx.data.inputs[i].index) :
                        i \in 1..Len(tx.data.inputs)}
    IN  [k \in (DOMAIN pool \cup created) \ consumed |->
            IF k \in created THEN tx.data.outputs[k[2] + 1] ELSE pool[k]]

RECURSIVE UpdateFrom(_, _, _)
UpdateFrom(pool, txs, i) ==
    IF i > Len(txs) THEN pool
    ELSE UpdateFrom(update_tx(pool, txs[i]), txs, i + 1)

\* update going through the transactions last to first.
update_reversed(pool, block) ==
    UpdateFrom(pool, [i \in 1..Len(block.data.transactions) |->
                        block.data.transactions[Len(block.data.transactions) + 1 - i]], 1)

\* UtxoPool::update
update(pool, block) == UpdateFrom(pool, block.data.transactions, 1)

RECURSIVE PoolFrom(_, _, _)
PoolFrom(pool, l, i) ==
    IF i > Len(l) THEN pool ELSE PoolFrom(update(pool, l[i]), l, i + 1)

\* UtxoPool::new
UtxoPool_new(l) == PoolFrom(UtxoPool_default, l, 1)

\* UtxoPool::is_unspent
is_unspent(pool, tx) ==
    \A i \in 1..Len(tx.data.inputs) :
        PoolKey(tx.data.inputs[i].hash, tx.data.inputs[i].index) \in DOMAIN pool

\* ------------------------------------------------------------------ chain

\* Chain::verify_tx_signatures
\* One iteration of the loop, hit being what query_tx has returned.
verify_input(input, hit) ==
    /\ hit.found
    /\ Len(hit.tx.data.outputs) > input.index
    /\ verify(hit.tx.data.outputs[input.index + 1].pubkey,
              hit.tx.hash, input.signature)

verify_tx_signatures(l, tx) ==
    \A i \in 1..Len(tx.data.inputs) :
        verify_input(tx.data.inputs[i], query_tx(l, tx.data.inputs[i].hash))

\* Chain::validate_tx
\* The match on get_tx_value of validate_tx.
tx_value_valid(value) ==
    CASE value.tag = "Some" -> B(value.output > 0 /\ value.input >= value.output)
      [] value.tag = "None" -> "F"
      [] value.tag = "Panic" -> "P"

validate_tx(l, tx, pool) ==
    AndThen(B(/\ tx_is_hash_valid(tx)
              /\ Len(tx.data.inputs) > 0
              /\ Len(tx.data.outputs) > 0
              /\ verify_tx_signatures(l, tx)
              /\ is_unspent(pool, tx)),
    AndThen(tx_value_valid(get_tx_value(l, tx)),
            B(tx.data.timestamp = None)))

\* Chain::validate_coinbase_tx
\* value.output <= reward + fees, bound being that sum or its abort.
coinbase_within(value, bound) ==
    IF bound = Panic THEN "P" ELSE B(value.output <= bound)

\* The arm Some(value) of the match on get_tx_value, h being the height
\* computed from the timestamp.
coinbase_value_at(r, txs_value, value, h) ==
    IF h = Panic THEN "P"
    ELSE AndThen(B(value.input = 0 /\ value.output > 0),
                 coinbase_within(value, AddU64(reward(r, h), txs_value.fees)))

\* The match on get_tx_value of validate_coinbase_tx.
coinbase_value_valid(r, tx, txs_value, value) ==
    CASE value.tag = "None" -> "F"
      [] value.tag = "Panic" -> "P"
      [] value.tag = "Some" ->
            coinbase_value_at(r, txs_value, value,
                IF tx.data.timestamp = None THEN 0
                ELSE AddU64(tx.data.timestamp[1], 1))

\* The match on query_block of validate_coinbase_tx.
coinbase_timestamp_valid(tx, q) ==
    /\ q.found
    /\ tx.data.timestamp # None
    /\ tx.data.timestamp[1] = q.height

\* validate_coinbase_tx once get_tx_collection_value has returned txs_value.
coinbase_valid(l, r, prev_block_hash, tx, txs_value) ==
    IF txs_value.tag = "Panic" THEN "P"
    ELSE IF txs_value.tag = "None" THEN "F"
    ELSE AndThen(B(/\ tx_is_hash_valid(tx)
                   /\ Len(tx.data.inputs) = 0
                   /\ Len(tx.data.outputs) > 0
                   /\ \/ is_zero(prev_block_hash)
                      \/ coinbase_timestamp_valid(
                             tx, query_block(l, prev_block_hash))),
                 coinbase_value_valid(r, tx, txs_value, get_tx_value(l, tx)))

validate_coinbase_tx(l, r, prev_block_hash, txs, tx) ==
    coinbase_valid(l, r, prev_block_hash, tx, get_tx_collection_value(l, txs))

\* Chain::validate_double_spend
validate_double_spend(transactions) ==
    LET refs == Concat([t \in 1..Len(transactions) |->
                   [i \in 1..Len(transactions[t].data.inputs) |->
                       PoolKey(transactions[t].data.inputs[i].hash,
                               transactions[t].data.inputs[i].index)]])
    IN  \A i, j \in 1..Len(refs) : i # j => refs[i] # refs[j]

RECURSIVE FoldValidateTx(_, _, _, _, _)
FoldValidateTx(l, txs, pool, i, n) ==
    IF i > n THEN "T"
    ELSE AndThen(validate_tx(l, txs[i], pool),
                 FoldValidateTx(l, txs, pool, i + 1, n))

\* validate_block without the arm that refuses a lone coinbase.
validate_block_lone_coinbase(l, r, block, previous, pool) ==
    LET txs == block.data.transactions
    IN  AndThen(B(/\ block_is_hash_valid(block)
                  /\ block.data.prev_hash = previous.hash
                  /\ Len(txs) > 0
                  /\ is_top_hash_valid(block)),
        AndThen(FoldValidateTx(l, txs, pool, 1, Len(txs) - 1),
        AndThen(OrElse(validate_coinbase_tx(l, r, block.data.prev_hash, txs,
                                            txs[Len(txs)]),
                       validate_tx(l, txs[Len(txs)], pool)),
                B(validate_double_spend(txs)))))

\* validate_block without the comparison of prev_hash with the hash of the
\* previous block.
validate_block_unlinked(l, r, block, previous, pool) ==
    LET txs == block.data.transactions
    IN  AndThen(B(/\ block_is_hash_valid(block)
                  /\ Len(txs) > 0
                  /\ (Len(txs) = 1 => ~is_coinbase(txs[Len(txs)]))
                  /\ is_top_hash_valid(block)),
        AndThen(FoldValidateTx(l, txs, pool, 1, Len(txs) - 1),
        AndThen(OrElse(validate_coinbase_tx(l, r, block.data.prev_hash, txs,
                                            txs[Len(txs)]),
                       validate_tx(l, txs[Len(txs)], pool)),
                B(validate_double_spend(txs)))))

\* Chain::validate_block
validate_block(l, r, block, previous, pool) ==
    LET txs == block.data.transactions
    IN  AndThen(B(/\ block_is_hash_valid(block)
                  /\ block.data.prev_hash = previous.hash
                  /\ Len(txs) > 0
                  /\ (Len(txs) = 1 => ~is_coinbase(txs[Len(txs)]))
                  /\ is_top_hash_valid(block)),
        AndThen(FoldValidateTx(l, txs, pool, 1, Len(txs) - 1),
        AndThen(OrElse(validate_coinbase_tx(l, r, block.data.prev_hash, txs,
                                            txs[Len(txs)]),
                       validate_tx(l, txs[Len(txs)], pool)),
                B(validate_double_spend(txs)))))

\* Chain::validate_new_block
validate_new_block(l, r, pool, block) ==
    validate_block(l, r, block, get_last_block(l), pool)

\* Chain::validate_genesis
\* The match on get_tx_value of validate_genesis.
genesis_value_valid(r, value) ==
    CASE value.tag = "Some" -> B(value.output <= r.base_coins)
      [] value.tag = "None" -> "F"
      [] value.tag = "Panic" -> "P"

validate_genesis(l, r) ==
    AndThen(B(/\ is_zero(l[1].data.prev_hash)
              /\ Len(l[1].data.transactions) = 1
              /\ Len(l[1].data.transactions[1].data.inputs) = 0
              /\ Len(l[1].data.transactions[1].data.outputs) > 0),
            genesis_value_valid(r, get_tx_value(l, l[1].data.transactions[1])))

\* Every block from the i-th on validated against one pool.
RECURSIVE FoldValidateLive(_, _, _, _)
FoldValidateLive(l, r, pool, i) ==
    IF i > Len(l) THEN "T"
    ELSE AndThen(validate_block(l, r, l[i], l[i - 1], pool),
                 FoldValidateLive(l, r, pool, i + 1))

\* Chain::validate_chain
\* The fold over the blocks after the genesis: block i is validated against
\* its predecessor and the pool of the blocks before it, then applied.
RECURSIVE ValidateChainFrom(_, _, _, _, _)
ValidateChainFrom(l, r, shadow, i, acc) ==
    IF i > Len(l) THEN acc
    ELSE ValidateChainFrom(l, r, update(shadow, l[i]), i + 1,
                           AndThen(acc, validate_block(l, r, l[i], l[i - 1], shadow)))

\* validate_chain checking every block against the pool of the chain.
validate_chain_live(l, r, pool) ==
    AndThen(validate_genesis(l, r),
            FoldValidateLive(l, r, pool, 2))

\* validate_chain on the chain l with the rules r, pool being the pool the
\* chain holds.
validate_chain(l, r, pool) ==
    AndThen(validate_genesis(l, r),
            ValidateChainFrom(l, r, update(UtxoPool_default, l[1]), 2, "T"))

\* Chain::init leaving the pool empty.
init_utxos_default(l) == UtxoPool_default

\* Chain::init: the pool of a chain built around the blocks l.
init_utxos(l) == UtxoPool_new(l)

\* SerializableChain::new: the rules and the blocks, without the pool.
SerializableChain_new(r, l) == [rules |-> r, chain |-> l]

\* from_serializable once validate_chain has returned valid.
from_serializable_validated(image, pool, valid) ==
    [tag |-> IF valid = "P" THEN "Panic"
             ELSE IF valid = "T" THEN "Ok" ELSE "InvalidChain",
     rules |-> image.rules, list |-> image.chain, utxos |-> pool]

\* Chain::from_serializable
from_serializable(image) ==
    from_serializable_validated(image, init_utxos(image.chain),
        validate_chain(image.chain, image.rules, init_utxos(image.chain)))

\* add_block once validate_new_block has returned v: the tag it returns
\* ("Panic" when the call aborts instead of returning).
add_block_validated(l, block, v) ==
    IF v = "P" THEN "Panic"
    ELSE IF v = "F" THEN "InvalidBlock"
    ELSE IF ~append_ok(l, block) THEN "InvalidPrevHash"
    ELSE "Ok"

\* add_block validating the block before it looks at the target.
add_block_tag_validate_first(l, r, pool, block) ==
    IF validate_new_block(l, r, pool, block) # "T"
    THEN add_block_validated(l, block, validate_new_block(l, r, pool, block))
    ELSE IF ~validate_target(r, block.hash) THEN "TargetNotSatisfied"
    ELSE add_block_validated(l, block, "T")

\* Chain::add_block: the tag it returns.
add_block_tag(l, r, pool, block) ==
    IF ~validate_target(r, block.hash) THEN "TargetNotSatisfied"
    ELSE add_block_validated(l, block, validate_new_block(l, r, pool, block))

\* add_block pushing the block whatever the checks have said.
add_block_list_unchecked(l, tag, block) == append(l, block)

\* Chain::add_block: the block list after a call that ends with tag.
add_block_list(l, tag, block) ==
    IF tag = "Ok" THEN append(l, block) ELSE l

\* add_block leaving the pool as it was.
add_block_utxos_stale(l, pool, tag, block) == pool

\* Chain::add_block: the pool after a call that ends with tag.
add_block_utxos(l, pool, tag, block) ==
    IF tag = "Ok" THEN update(pool, get_last_block(append(l, block))) ELSE pool

Returned(tag, value) == [tag |-> tag, value |-> value]

\* add_block returning the height after the call instead of the index.
add_block_result_height(l, tag, block) ==
    Returned(tag, IF tag = "Ok" THEN Len(append(l, block)) ELSE 0)

\* Chain::add_block: what the call returns, Ok with the new block's index.
add_block_result(l, tag, block) ==
    Returned(tag, IF tag = "Ok" THEN Len(append(l, block)) - 1 ELSE 0)

\* utils::new_coinbase_tx
new_coinbase_tx(pubkey, value, timestamp) ==
    Transaction_new(TransactionData_new_with_timestamp(
        << >>, <<[value |-> value, pubkey |-> pubkey]>>, timestamp))

\* utils::new_genesis_block: a single coinbase of base_coins, timestamp 0,
\* on the zero hash.
new_genesis_block(pubkey, base_coins) ==
    Block_new(BlockData_new(ZeroHash, 0,
                            <<new_coinbase_tx(pubkey, base_coins, 0)>>))

\* Chain::new_with_consensus: the block list of the new chain.
new_with_consensus(pubkey, r) ==
    Blockchain_new(new_genesis_block(pubkey, r.base_coins))

\* ----------------------------------------------------- the caller's blocks
\* The blocks handed to add_block are drawn from families built around the
\* current chain: spends of its outputs (rightly or wrongly signed, spent
\* or unspent), coinbases around the reward bound, and blocks of one to
\* three of those, with a right or wrong hash, top hash and predecessor.

Pay(value, pubkey) == [value |-> value, pubkey |-> pubkey]

OtherKey(k) == CHOOSE x \in Keys : x # k

\* Every output of every transaction of the chain, spent or not.
ChainOutputs(l) ==
    UNION {UNION {{[hash |-> l[i].data.transactions[j].hash, index |-> k - 1,
                    output |-> l[i].data.transactions[j].data.outputs[k]] :
                      k \in 1..Len(l[i].data.transactions[j].data.outputs)} :
                  j \in 1..Len(l[i].data.transactions)} :
           i \in 1..Len(l)}

Unspent(l, pool) ==
    {o \in ChainOutputs(l) : PoolKey(o.hash, o.index) \in DOMAIN pool}

InputOf(o, key, msg) ==
    [hash |-> o.hash, index |-> o.index, signature |-> Sign(key, msg)]

\* The input its owner would make, as utxo::into_inputs does.
GoodInput(o) == InputOf(o, o.output.pubkey, o.hash)

\* Inputs that must not verify: another key's signature, the owner's
\* signature over another message, an index past the outputs, an unknown
\* transaction.
BadInputs(l) ==
    {InputOf(o, OtherKey(o.output.pubkey), o.hash) : o \in ChainOutputs(l)}
        \cup {InputOf(o, o.output.pubkey, TestHash) : o \in ChainOutputs(l)}
        \cup {[hash |-> o.hash, index |-> o.index + 2,
               signature |-> Sign(o.output.pubkey, o.hash)] :
                 o \in ChainOutputs(l)}
        \cup {[hash |-> TestHash, index |-> 0, signature |-> Sign(1, TestHash)]}

Spend(inputs, outputs) ==
    Transaction_new(TransactionData_new(inputs, outputs))

\* Output lists for a spend of v coins: all of it, one coin as fee, split
\* with change, one coin too many, nothing, and a sum that passes 2^w.
OutputChoices(v) ==
    {<<Pay(v, 2)>>, <<Pay(v + 1, 2)>>, << >>}
        \cup (IF v >= 1 THEN {<<Pay(v - 1, 2)>>, <<Pay(1, 2), Pay(v - 1, 1)>>}
              ELSE {})
        \cup (IF v + 1 <= MaxValue THEN {<<Pay(MaxValue, 2), Pay(v + 1, 2)>>}
              ELSE {})

\* Spends of one output by its owner.
GoodSpends(l, outs) ==
    UNION {{Spend(<<GoodInput(o)>>, outputs) :
               outputs \in OutputChoices(o.output.value)} : o \in outs}

\* Spends that look right: the whole output or all but one coin.
PlainSpends(l, pool) ==
    UNION {{Spend(<<GoodInput(o)>>, <<Pay(o.output.value, 2)>>)}
              \cup (IF o.output.value >= 2
                    THEN {Spend(<<GoodInput(o)>>, <<Pay(o.output.value - 1, 2)>>)}
                    ELSE {}) : o \in Unspent(l, pool)}

\* Spends of two outputs by their owners, the same output twice included.
PairSpends(l, pool) ==
    UNION {{Spend(<<GoodInput(a), GoodInput(b)>>,
                  <<Pay(a.output.value + b.output.value - d, 2)>>) :
               d \in {x \in 0..1 :
                        a.output.value + b.output.value - x \in 1..MaxValue}} :
           <<a, b>> \in Unspent(l, pool) \X Unspent(l, pool)}

RegularChoices(l, pool) ==
    GoodSpends(l, ChainOutputs(l))
        \cup PairSpends(l, pool)
        \cup {Spend(<<i>>, <<Pay(1, 2)>>) : i \in BadInputs(l)}
        \* a regular transaction with a timestamp
        \cup {Transaction_new(TransactionData_new_with_timestamp(
                  <<GoodInput(o)>>, <<Pay(o.output.value, 2)>>, Len(l) - 1)) :
                o \in Unspent(l, pool)}
        \* a transaction whose hash is not the hash of its data
        \cup {[hash |-> TestHash,
               data |-> TransactionData_new(<<GoodInput(o)>>,
                                            <<Pay(o.output.value, 2)>>)] :
                o \in Unspent(l, pool)}

\* The fees add_block will count for txs (0 when they do not resolve).
FeesIn(v) == IF v.tag = "Some" THEN v.fees ELSE 0

FeesOf(l, txs) == FeesIn(get_tx_collection_value(l, txs))

\* Coinbases for a block on the tip that holds txs: around the bound
\* reward + fees, with the right, a wrong and no timestamp, a wrong hash,
\* and outputs whose sum passes 2^w.
CoinbasesAround(bound, h) ==
    {new_coinbase_tx(1, v, h) :
        v \in {x \in {0, bound - 1, bound, bound + 1} : x \in 0..MaxValue}}
        \cup {new_coinbase_tx(1, bound, h + 1)}
        \cup {Transaction_new(TransactionData_new(<< >>, <<Pay(bound, 1)>>))}
        \cup {[hash |-> TestHash,
               data |-> TransactionData_new_with_timestamp(
                            << >>, <<Pay(bound, 1)>>, h)]}
        \cup (IF bound + 1 <= MaxValue
              THEN {Transaction_new(TransactionData_new_with_timestamp(
                        << >>, <<Pay(MaxValue, 1), Pay(bound + 1, 1)>>, h))}
              ELSE {})

\* The reward of the next block (base_coins when the rules have none).
NextReward(l, r) ==
    IF reward(r, Len(l)) = Panic THEN r.base_coins ELSE reward(r, Len(l))

CoinbaseChoices(l, r, txs) ==
    CoinbasesAround(NextReward(l, r) + FeesOf(l, txs), Len(l) - 1)

NewBlock(l, txs) == Block_new(BlockData_new(get_last_block(l).hash, 0, txs))

\* Blocks built on the tip.
TipBlocksOf(l, r, pool, regular, plain, good) ==
        {NewBlock(l, << >>)}
        \cup {NewBlock(l, <<tx>>) : tx \in regular \cup CoinbaseChoices(l, r, << >>)}
        \cup UNION {{NewBlock(l, <<tx, cb>>) : cb \in CoinbaseChoices(l, r, <<tx>>)} :
                    tx \in good}
        \cup {NewBlock(l, <<p[1], p[2]>>) : p \in plain \X plain}
        \* the second transaction spends an output of the first
        \cup {NewBlock(l, <<tx, Spend(<<InputOf([hash |-> tx.hash, index |-> 0],
                                                2, tx.hash)>>,
                                      <<Pay(tx.data.outputs[1].value, 2)>>)>>) :
                tx \in plain}
        \* a spend whose outputs pass 2^w, before a spend of the same output
        \* that is wrongly signed or right
        \cup UNION {{NewBlock(l, <<Spend(<<GoodInput(o)>>,
                                        <<Pay(MaxValue, 2),
                                          Pay(o.output.value + 1, 2)>>), x>>) :
                        x \in {Spend(<<InputOf(o, OtherKey(o.output.pubkey), o.hash)>>,
                                     <<Pay(1, 2)>>),
                               Spend(<<GoodInput(o)>>, <<Pay(o.output.value, 2)>>)}} :
                    o \in {u \in Unspent(l, pool) : u.output.value + 1 <= MaxValue}}
        \* a coinbase that is not the last transaction
        \cup UNION {{NewBlock(l, <<cb, tx>>), NewBlock(l, <<cb, cb>>),
                     NewBlock(l, <<tx, cb, cb>>)} :
                    <<tx, cb>> \in plain \X {new_coinbase_tx(1, 1, Len(l) - 1)}}
        \* two spends and a coinbase that claims their fees
        \cup UNION {{NewBlock(l, <<p[1], p[2], cb>>) :
                        cb \in {new_coinbase_tx(1, v, Len(l) - 1) :
                                  v \in {x \in {FeesOf(l, <<p[1], p[2]>>)
                                                  + reward(r, Len(l)) + d :
                                                d \in 0..1} : x \in 1..MaxValue}}} :
                    p \in {q \in plain \X plain :
                             q[1].data.inputs[1] # q[2].data.inputs[1]}}

TipBlocks(l, r, pool) ==
    TipBlocksOf(l, r, pool, RegularChoices(l, pool), PlainSpends(l, pool),
                GoodSpends(l, Unspent(l, pool)) \cup PairSpends(l, pool))

\* The same blocks with one field wrong: the hash, the top hash, the
\* predecessor (none, unknown, or a block that is not the tip), the nonce.
Mutations(l, block) ==
    {[block EXCEPT !.hash = TestHash],
     [block EXCEPT !.hash = l[1].hash],
     Block_new([block.data EXCEPT !.top_hash = ZeroHash]),
     Block_new([block.data EXCEPT !.prev_hash = ZeroHash]),
     Block_new([block.data EXCEPT !.prev_hash = TestHash]),
     Block_new([block.data EXCEPT !.prev_hash = l[1].hash]),
     Block_new([block.data EXCEPT !.nonce = 1])}

BlockChoices(l, r, pool) ==
    TipBlocks(l, r, pool)
        \cup UNION {Mutations(l, NewBlock(l, <<tx>>)) : tx \in PlainSpends(l, pool)}
        \cup UNION {Mutations(l, NewBlock(l, <<tx,
                        new_coinbase_tx(1, reward(r, Len(l)) + FeesOf(l, <<tx>>),
                                        Len(l) - 1)>>)) :
                    tx \in {t \in PlainSpends(l, pool) :
                              reward(r, Len(l)) + FeesOf(l, <<t>>) \in 1..MaxValue}}

\* What arg and result hold when no call is under way.
NoBlock == Block_new(BlockData_new(ZeroHash, 0, << >>))

NoResult == Returned("none", 0)

\* command_start once the threads are spawned and the handlers set: both
\* mutexes free, the command channel empty, the miner task at
\* recv_timeout, no request in a handler, no signal delivered, the main
\* thread at miner_task.join().
Node_new ==
    [chain_lock |-> "free", miner_lock |-> "free",
     chain_poisoned |-> FALSE, miner_poisoned |-> FALSE,
     channel |-> << >>, miner_task |-> "recv", block |-> NoBlock,
     handler |-> "idle", server |-> "running", signal |-> "none",
     main |-> "join_miner"]

\* ------------------------------------------------------------------ miner

\* Miner::new: the pool of a new miner, a map from hash to transaction.
Miner_new == [h \in {} |-> NoTx]

\* Miner.recipient of the miner explored.
recipient == 1

\* let tx_count: usize = 5
tx_count == 5

\* u32::MAX at the width NonceBits.
MaxNonce == Pow2(NonceBits) - 1

\* get_utxos: the (hash, index) pairs the inputs of tx name.
get_utxos(tx) ==
    {PoolKey(tx.data.inputs[i].hash, tx.data.inputs[i].index) :
        i \in 1..Len(tx.data.inputs)}

\* merge_utxos taking every transaction.
merge_utxos_any(tx, selected) == TRUE

\* merge_utxos: whether tx is taken, which it is when it shares no pair
\* with the ones selected so far.
merge_utxos(tx, selected) == selected \cap get_utxos(tx) = {}

\* The sequences choose_multiple can return: tx_count keys of the pool, or
\* all of them when there are fewer, in any order.
Samples(mp) ==
    {sample \in [1..Min({tx_count, Cardinality(DOMAIN mp)}) -> DOMAIN mp] :
        \A i, j \in DOMAIN sample : i # j => sample[i] # sample[j]}

\* One sampling attempt of mine: the transactions taken from sample, in
\* order, and the pairs they name.
RECURSIVE SelectFrom(_, _, _, _, _)
SelectFrom(mp, sample, i, txs, selected) ==
    IF i > Len(sample) THEN [txs |-> txs, selected_utxos |-> selected]
    ELSE IF merge_utxos(mp[sample[i]], selected)
         THEN SelectFrom(mp, sample, i + 1, Append(txs, mp[sample[i]]),
                         selected \cup get_utxos(mp[sample[i]]))
         ELSE SelectFrom(mp, sample, i + 1, txs, selected)

\* The pool without the transactions txs[1..n].
RemoveChosen(mp, txs, n) ==
    [h \in DOMAIN mp \ {txs[i].hash : i \in 1..n} |-> mp[h]]

\* The loop of mine that removes the chosen transactions and adds their
\* values: the total, or the abort of an addition or of unwrap() on None.
RECURSIVE MineValueFrom(_, _, _, _)

MineValueAdded(l, txs, i, s) ==
    IF s.tag = "Panic" THEN s ELSE MineValueFrom(l, txs, i + 1, s)

MineValueStep(l, txs, i, acc, value) ==
    IF value.tag # "Some" THEN PanicTxValue
    ELSE MineValueAdded(l, txs, i, TransactionValue_add(acc, value))

MineValueFrom(l, txs, i, acc) ==
    IF i > Len(txs) THEN acc
    ELSE MineValueStep(l, txs, i, acc, get_tx_value(l, txs[i]))

mine_tx_value(l, txs) == MineValueFrom(l, txs, 1, TransactionValue_new(0, 0, 0))

\* How many transactions the loop has removed when it ends or aborts.
MineRemoved(l, txs) ==
    IF mine_tx_value(l, txs).tag = "Some" THEN Len(txs)
    ELSE Min({n \in 1..Len(txs) : mine_tx_value(l, SubSeq(txs, 1, n)).tag # "Some"})

\* chain.rules.reward(chain.height()) + tx_value.fees
mine_coinbase_value(l, r, fees) == AddU64(reward(r, height(l)), fees)

\* The transactions of the candidate block: the chosen ones, then the
\* coinbase when its value is above 0.
mine_transactions(l, txs, coinbase_value) ==
    IF coinbase_value > 0
    THEN Append(txs, Transaction_new(TransactionData_new_with_timestamp(
                         << >>, <<[value |-> coinbase_value, pubkey |-> recipient]>>,
                         height(l) - 1)))
    ELSE txs

\* utils::new_block
new_block(l, nonce, txs) ==
    Block_new(BlockData_new(get_last_block(l).hash, nonce, txs))

\* The nonces of the search whose block meets the target.
MineNonces(l, r, txs) ==
    {n \in 0..MaxNonce : validate_target(r, new_block(l, n, txs).hash)}

\* cleanup_pool keeping everything.
cleanup_pool_none(mp, selected) == mp

\* Miner::cleanup_pool
cleanup_pool(mp, selected) ==
    [h \in {x \in DOMAIN mp : selected \cap get_utxos(mp[x]) = {}} |-> mp[h]]

\* add_tx inserting whatever validate_tx has said.
add_tx_pool_unchecked(mp, tx, valid) ==
    [h \in DOMAIN mp \cup {tx.hash} |-> IF h = tx.hash THEN tx ELSE mp[h]]

\* Miner::add_tx: the pool after the call, valid being what validate_tx
\* has returned.
add_tx_pool(mp, tx, valid) ==
    IF valid = "T"
    THEN [h \in DOMAIN mp \cup {tx.hash} |-> IF h = tx.hash THEN tx ELSE mp[h]]
    ELSE mp

\* The loop of mine that puts the transactions of the block back with
\* add_tx when no nonce has met the target.
RECURSIVE ReinsertFrom(_, _, _, _, _)
ReinsertFrom(l, pool, mp, txs, i) ==
    IF i > Len(txs) THEN mp
    ELSE ReinsertFrom(l, pool, add_tx_pool(mp, txs[i], validate_tx(l, txs[i], pool)),
                      txs, i + 1)

MineEnd(tag, block, mp) == [tag |-> tag, block |-> block, pool |-> mp]

\* mine from the nonce search on, leaving the chosen transactions out of
\* the pool when no nonce meets the target.
mine_search_drop(l, r, pool, mp, selected, txs, nonces) ==
    IF nonces # {}
    THEN MineEnd("Ok", new_block(l, Min(nonces), txs), cleanup_pool(mp, selected))
    ELSE MineEnd("NoBlockFound", NoBlock, mp)

\* mine from the nonce search on, txs being the transactions of the block
\* and mp the pool without the chosen ones.
mine_search(l, r, pool, mp, selected, txs, nonces) ==
    IF nonces # {}
    THEN MineEnd("Ok", new_block(l, Min(nonces), txs), cleanup_pool(mp, selected))
    ELSE MineEnd("NoBlockFound", NoBlock, ReinsertFrom(l, pool, mp, txs, 1))

\* mine once the coinbase value is known.
mine_assemble(l, r, pool, mp, selected, txs, coinbase_value) ==
    IF coinbase_value = Panic THEN MineEnd("Panic", NoBlock, mp)
    ELSE mine_search(l, r, pool, mp, selected,
                     mine_transactions(l, txs, coinbase_value),
                     MineNonces(l, r, mine_transactions(l, txs, coinbase_value)))

\* mine once the chosen transactions have been removed and valued.
mine_valued(l, r, pool, mp, chosen, tx_value) ==
    IF tx_value.tag # "Some"
    THEN MineEnd("Panic", NoBlock,
                 RemoveChosen(mp, chosen.txs, MineRemoved(l, chosen.txs)))
    ELSE mine_assemble(l, r, pool, RemoveChosen(mp, chosen.txs, Len(chosen.txs)),
                       chosen.selected_utxos, chosen.txs,
                       mine_coinbase_value(l, r, tx_value.fees))

\* mine returning NotEnoughTransactions unless two transactions are chosen.
mine_chosen_two(l, r, pool, mp, chosen) ==
    IF Len(chosen.txs) < 2 THEN MineEnd("NotEnoughTransactions", NoBlock, mp)
    ELSE mine_valued(l, r, pool, mp, chosen, mine_tx_value(l, chosen.txs))

\* mine once the sampling attempts have ended with chosen.
mine_chosen(l, r, pool, mp, chosen) ==
    IF Len(chosen.txs) = 0 THEN MineEnd("NotEnoughTransactions", NoBlock, mp)
    ELSE mine_valued(l, r, pool, mp, chosen, mine_tx_value(l, chosen.txs))

\* Miner::mine, sample being what the last sampling attempt has drawn.
mine(l, r, pool, mp, sample) ==
    mine_chosen(l, r, pool, mp, SelectFrom(mp, sample, 1, << >>, {}))

\* ------------------------------------------------------------ the machine

\* The rules of the chains explored.
RulesChoices ==
    {ConsensusRules_new(TargetMAX, BaseCoins, h) :
        h \in {HalvingNone, HalvingInf, HalvingHeight(1)}}
        \cup {ConsensusRules_new(from_leading_zeros(1), BaseCoins, HalvingNone)}

\* Chain::new_with_consensus(key 1, rules), in a build with or without
\* overflow checks.
Init ==
    /\ rules \in RulesChoices
    /\ overflow_checks \in BOOLEAN
    /\ list = new_with_consensus(1, rules)
    /\ utxos = UtxoPool_new(list)
    /\ pc = "idle"
    /\ arg = NoBlock
    /\ result = NoResult
    /\ miner_pool = Miner_new
    /\ node = Node_new

\* The end of a call of add_block: it returns, or the process aborts.
add_block_ends(tag) ==
    /\ list' = add_block_list(list, tag, arg)
    /\ utxos' = add_block_utxos(list, utxos, tag, arg)
    /\ result' = add_block_result(list, tag, arg)
    /\ pc' = IF tag = "Panic" THEN "aborted" ELSE "done"

\* A caller builds a block and calls add_block with it.
Call ==
    /\ pc = "idle"
    /\ Len(list) < MaxHeight
    /\ \E block \in BlockChoices(list, rules, utxos) : arg' = block
    /\ pc' = "called"
    /\ result' = NoResult
    /\ UNCHANGED <<rules, list, utxos, overflow_checks, miner_pool, node>>

\* Chain::add_block(arg)
add_block ==
    /\ pc = "called"
    /\ add_block_ends(add_block_tag(list, rules, utxos, arg))
    /\ UNCHANGED <<rules, overflow_checks, arg, miner_pool, node>>

\* The caller takes the result.
Return ==
    /\ pc = "done"
    /\ pc' = "idle"
    /\ arg' = NoBlock
    /\ result' = NoResult
    /\ UNCHANGED <<rules, list, utxos, overflow_checks, miner_pool, node>>

Next == Call \/ add_block \/ Return

Spec == Init /\ [][Next]_vars

\* ------------------------------------------- the substrate on its own
\* Blockchain::new(genesis) followed by Blockchain::append calls, with no
\* validator in front: rules and utxos only serve to draw the blocks.

DefaultRules == ConsensusRules_new(TargetMAX, BaseCoins, HalvingNone)

InitBlockchain ==
    /\ rules = DefaultRules
    /\ overflow_checks = FALSE
    /\ list = Blockchain_new(new_genesis_block(1, rules.base_coins))
    /\ utxos = UtxoPool_default
    /\ pc = "idle"
    /\ arg = NoBlock
    /\ result = NoResult
    /\ miner_pool = Miner_new
    /\ node = Node_new

CallAppend ==
    /\ pc = "idle"
    /\ Len(list) < MaxHeight
    /\ \E block \in BlockChoices(list, rules, UtxoPool_new(list)) : arg' = block
    /\ pc' = "appending"
    /\ result' = NoResult
    /\ UNCHANGED <<rules, list, utxos, overflow_checks, miner_pool, node>>

\* Blockchain::append(arg)
Blockchain_append ==
    /\ pc = "appending"
    /\ list' = append(list, arg)
    /\ result' = IF append_ok(list, arg) THEN Returned("Ok", Len(list') - 1)
                 ELSE Returned("InvalidPrevHash", 0)
    /\ pc' = "done"
    /\ UNCHANGED <<rules, utxos, overflow_checks, arg, miner_pool, node>>

NextBlockchain == CallAppend \/ Blockchain_append \/ Return

SpecBlockchain == InitBlockchain /\ [][NextBlockchain]_vars

\* ------------------------------------------------ the pool on its own
\* UtxoPool::new over a chain, then blocks appended to the chain and
\* handed to UtxoPool::update with no validator in front, so that the
\* transactions of a block may spend each other's outputs.

\* A transaction whose only input names its own first output.
SelfSpend ==
    [hash |-> TestHash,
     data |-> TransactionData_new(
                  <<[hash |-> TestHash, index |-> 0, signature |-> Sign(2, TestHash)]>>,
                  <<Pay(1, 2), Pay(1, 1)>>)]

UpdateChoices(l, r, pool) ==
    TipBlocks(l, r, pool)
        \cup {NewBlock(l, <<SelfSpend>>)}
        \cup {NewBlock(l, <<tx, SelfSpend>>) : tx \in PlainSpends(l, pool)}

InitUtxoPool ==
    /\ rules = DefaultRules
    /\ overflow_checks = FALSE
    /\ list = Blockchain_new(new_genesis_block(1, rules.base_coins))
    /\ utxos = UtxoPool_new(list)
    /\ pc = "idle"
    /\ arg = NoBlock
    /\ result = NoResult
    /\ miner_pool = Miner_new
    /\ node = Node_new

CallUpdate ==
    /\ pc = "idle"
    /\ Len(list) < MaxHeight
    /\ \E block \in UpdateChoices(list, rules, utxos) : arg' = block
    /\ pc' = "updating"
    /\ result' = NoResult
    /\ UNCHANGED <<rules, list, utxos, overflow_checks, miner_pool, node>>

\* Blockchain::append(arg), then UtxoPool::update(arg)
UtxoPool_update ==
    /\ pc = "updating"
    /\ list' = append(list, arg)
    /\ utxos' = update(utxos, arg)
    /\ result' = Returned("Ok", Len(list))
    /\ pc' = "done"
    /\ UNCHANGED <<rules, overflow_checks, arg, miner_pool, node>>

NextUtxoPool == CallUpdate \/ UtxoPool_update \/ Return

SpecUtxoPool == InitUtxoPool /\ [][NextUtxoPool]_vars

\* ------------------------------------------- the consensus rules alone
\* ConsensusRules built with every target, base_coins and halving of the
\* model's widths, then reward and validate_target called on them.

\* Largest halving period explored.
MaxPeriod == 3

ConsensusChoices ==
    {ConsensusRules_new(t, b, h) :
        t \in 0..TargetMAX, b \in {BaseCoins, MaxValue},
        h \in {HalvingNone, HalvingInf}
                \cup {HalvingHeight(v) : v \in 0..MaxPeriod}}

\* The hashes validate_target is called with: one per value of the
\* integer read from the digest, the zero hash and Hash::new(b"test").
HashChoices ==
    {HashNew(<<b>>) : b \in 0..TargetMAX} \cup {ZeroHash, TestHash}

InitConsensus ==
    /\ rules \in ConsensusChoices
    /\ overflow_checks \in BOOLEAN
    /\ list = Blockchain_new(new_genesis_block(1, rules.base_coins))
    /\ utxos = UtxoPool_new(list)
    /\ pc = "idle"
    /\ arg = NoBlock
    /\ result = NoResult
    /\ miner_pool = Miner_new
    /\ node = Node_new

CallReward ==
    /\ pc = "idle"
    /\ \E h \in 0..MaxValue : arg' = h
    /\ pc' = "reward"
    /\ result' = NoResult
    /\ UNCHANGED <<rules, list, utxos, overflow_checks, miner_pool, node>>

\* What a call of reward ends with: the value, or the abort.
reward_ends(value) ==
    /\ result' = IF value = Panic THEN Returned("Panic", 0)
                 ELSE Returned("Ok", value)
    /\ pc' = IF value = Panic THEN "aborted" ELSE "done"

\* ConsensusRules::reward(arg)
ConsensusRules_reward ==
    /\ pc = "reward"
    /\ reward_ends(reward(rules, arg))
    /\ UNCHANGED <<rules, list, utxos, overflow_checks, arg, miner_pool, node>>

CallValidateTarget ==
    /\ pc = "idle"
    /\ \E hash \in HashChoices : arg' = hash
    /\ pc' = "validate_target"
    /\ result' = NoResult
    /\ UNCHANGED <<rules, list, utxos, overflow_checks, miner_pool, node>>

\* ConsensusRules::validate_target(arg)
ConsensusRules_validate_target ==
    /\ pc = "validate_target"
    /\ result' = Returned(B(validate_target(rules, arg)), 0)
    /\ pc' = "done"
    /\ UNCHANGED <<rules, list, utxos, overflow_checks, arg, miner_pool, node>>

NextConsensus ==
    \/ CallReward
    \/ ConsensusRules_reward
    \/ CallValidateTarget
    \/ ConsensusRules_validate_target
    \/ Return

SpecConsensus == InitConsensus /\ [][NextConsensus]_vars

\* ------------------------------------------------ the chain and a miner
\* Chain::new_with_consensus and Miner::new, then transactions handed to
\* validate_new_tx and to add_tx, and mining rounds: mine and, when it
\* returns a block, add_block of that block, as the mining task does.

\* The transactions handed to validate_new_tx.
TxChoices(l, pool) ==
    RegularChoices(l, pool) \cup {new_coinbase_tx(1, 1, Len(l) - 1)}

\* The transactions handed to add_tx: for every unspent output a spend of
\* all of it, of all but one coin, one that names it in two inputs, one
\* whose outputs pass 2^w and one signed by another key; a spend of every
\* spent output; a coinbase.
AddTxChoices(l, pool) ==
    PlainSpends(l, pool)
        \cup {Spend(<<GoodInput(o), GoodInput(o)>>, <<Pay(2 * o.output.value, 2)>>) :
                o \in {u \in Unspent(l, pool) : 2 * u.output.value \in 1..MaxValue}}
        \cup {Spend(<<GoodInput(o)>>, <<Pay(MaxValue, 2), Pay(o.output.value + 1, 2)>>) :
                o \in {u \in Unspent(l, pool) : u.output.value + 1 <= MaxValue}}
        \cup {Spend(<<InputOf(o, OtherKey(o.output.pubkey), o.hash)>>,
                    <<Pay(o.output.value, 2)>>) : o \in Unspent(l, pool)}
        \cup {Spend(<<GoodInput(o)>>, <<Pay(o.output.value, 2)>>) :
                o \in ChainOutputs(l) \ Unspent(l, pool)}
        \cup {new_coinbase_tx(1, 1, Len(l) - 1)}

\* What a call of validate_tx returns, or the abort.
Validated(valid) == Returned(IF valid = "P" THEN "Panic" ELSE valid, 0)

CallValidateNewTx ==
    /\ pc = "idle"
    /\ miner_pool = Miner_new
    /\ \E tx \in TxChoices(list, utxos) : arg' = tx
    /\ pc' = "validate_new_tx"
    /\ result' = NoResult
    /\ UNCHANGED <<rules, list, utxos, overflow_checks, miner_pool, node>>

validate_new_tx_ends(valid) ==
    /\ result' = Validated(valid)
    /\ pc' = IF valid = "P" THEN "aborted" ELSE "done"

\* Chain::validate_new_tx(arg)
Chain_validate_new_tx ==
    /\ pc = "validate_new_tx"
    /\ validate_new_tx_ends(validate_tx(list, arg, utxos))
    /\ UNCHANGED <<rules, list, utxos, overflow_checks, arg, miner_pool, node>>

CallAddTx ==
    /\ pc = "idle"
    /\ Len(list) < MaxHeight
    /\ Cardinality(DOMAIN miner_pool) < MaxPool
    /\ \E tx \in AddTxChoices(list, utxos) : arg' = tx
    /\ pc' = "add_tx"
    /\ result' = NoResult
    /\ UNCHANGED <<rules, list, utxos, overflow_checks, miner_pool, node>>

add_tx_ends(valid) ==
    /\ miner_pool' = add_tx_pool(miner_pool, arg, valid)
    /\ result' = Validated(valid)
    /\ pc' = IF valid = "P" THEN "aborted" ELSE "done"

\* Miner::add_tx(chain, arg)
Miner_add_tx ==
    /\ pc = "add_tx"
    /\ add_tx_ends(validate_tx(list, arg, utxos))
    /\ UNCHANGED <<rules, list, utxos, overflow_checks, arg, node>>

CallMine ==
    /\ pc = "idle"
    /\ Len(list) < MaxHeight
    /\ pc' = "mining"
    /\ UNCHANGED <<rules, list, utxos, overflow_checks, arg, result, miner_pool, node>>

mine_ends(end) ==
    /\ miner_pool' = end.pool
    /\ result' = Returned(end.tag, end.block)
    /\ pc' = IF end.tag = "Panic" THEN "aborted" ELSE "mined"

\* Miner::mine(chain)
Miner_mine ==
    /\ pc = "mining"
    /\ \E sample \in Samples(miner_pool) :
          mine_ends(mine(list, rules, utxos, miner_pool, sample))
    /\ UNCHANGED <<rules, list, utxos, overflow_checks, arg, node>>

\* The mining task hands the block mine has returned to add_block.
SubmitMined ==
    /\ pc = "mined"
    /\ result.tag = "Ok"
    /\ arg' = result.value
    /\ pc' = "called"
    /\ result' = NoResult
    /\ UNCHANGED <<rules, list, utxos, overflow_checks, miner_pool, node>>

\* The mining task gives up the round when mine has returned an error.
MineFailed ==
    /\ pc = "mined"
    /\ result.tag # "Ok"
    /\ pc' = "idle"
    /\ result' = NoResult
    /\ UNCHANGED <<rules, list, utxos, overflow_checks, arg, miner_pool, node>>

NextMiner ==
    \/ CallValidateNewTx
    \/ Chain_validate_new_tx
    \/ CallAddTx
    \/ Miner_add_tx
    \/ CallMine
    \/ Miner_mine
    \/ SubmitMined
    \/ MineFailed
    \/ add_block
    \/ Return

SpecMiner == Init /\ [][NextMiner]_vars

\* --------------------------------------------------------- validate_chain
\* A chain grown by Blockchain::append on the public field chain, which
\* leaves the pool of the chain behind; validate_chain is called on it.

\* The blocks appended: built on the tip, of one or two transactions,
\* valid or not.
AppendChoices(l, r, pool) ==
    TipBlocksOf(l, r, pool, PlainSpends(l, pool), PlainSpends(l, pool),
                PlainSpends(l, pool))

\* chain.chain.append(block) with a block built on the tip.
Blockchain_append_direct ==
    /\ pc = "idle"
    /\ Len(list) < MaxHeight
    /\ \E block \in AppendChoices(list, rules, UtxoPool_new(list)) :
           list' = append(list, block)
    /\ UNCHANGED <<rules, utxos, overflow_checks, pc, arg, result, miner_pool, node>>

CallValidateChain ==
    /\ pc = "idle"
    /\ Len(list) > 1
    /\ pc' = "validate_chain"
    /\ UNCHANGED <<rules, list, utxos, overflow_checks, arg, result, miner_pool, node>>

validate_chain_ends(valid) ==
    /\ result' = Validated(valid)
    /\ pc' = IF valid = "P" THEN "aborted" ELSE "done"

Chain_validate_chain ==
    /\ pc = "validate_chain"
    /\ validate_chain_ends(validate_chain(list, rules, utxos))
    /\ UNCHANGED <<rules, list, utxos, overflow_checks, arg, miner_pool, node>>

NextValidateChain ==
    \/ Blockchain_append_direct
    \/ CallValidateChain
    \/ Chain_validate_chain
    \/ Return

SpecValidateChain == Init /\ [][NextValidateChain]_vars

\* ------------------------------------------------------------------- node
\* command_start of the server: the miner task, the handler of
\* POST /chain, the Ctrl-C handler and the main thread, around the two
\* mutexes and the command channel.

\* The pool size a Mine command must find exceeded for mine to run.
mine_threshold == 10

\* A Mine command starting mine whatever the pool holds.
trigger_mines_always(mp) == TRUE

\* The test the miner loop makes on a Mine command.
trigger_mines(mp) == Cardinality(DOMAIN mp) > mine_threshold

\* Whether the process is still running: it ends when the main thread
\* returns or panics.
Alive(n) == n.main \in {"join_miner", "join_server", "save"}

\* A thread of the miner task panics: the guards it holds are dropped and
\* their mutexes poisoned (chain and miner say which it holds).
miner_panics(n, chain, miner) ==
    [n EXCEPT !.miner_task = "panicked", !.block = NoBlock,
              !.chain_lock = IF chain THEN "free" ELSE @,
              !.chain_poisoned = @ \/ chain,
              !.miner_lock = IF miner THEN "free" ELSE @,
              !.miner_poisoned = @ \/ miner]

\* The handler panics: the server answers 500 and the guards the handler
\* holds are dropped and their mutexes poisoned.
handler_panics(n, chain, miner) ==
    [n EXCEPT !.handler = "idle",
              !.chain_lock = IF chain THEN "free" ELSE @,
              !.chain_poisoned = @ \/ chain,
              !.miner_lock = IF miner THEN "free" ELSE @,
              !.miner_poisoned = @ \/ miner]

\* recv_timeout returning a command.
miner_recv(n) ==
    [n EXCEPT !.channel = Tail(@),
              !.miner_task = IF Head(n.channel) = "Stop" THEN "exited" ELSE "got_mine"]

\* recv_timeout returning Err: the closure mine is called.
miner_timeout(n) == [n EXCEPT !.miner_task = "mine"]

\* MinerCommand::Mine: the pool is read under the miner mutex, which is
\* released before mine is called.
miner_check_pool(n, mp) ==
    IF n.miner_poisoned THEN miner_panics(n, FALSE, FALSE)
    ELSE [n EXCEPT !.miner_task = IF trigger_mines(mp) THEN "mine" ELSE "recv"]

\* The closure mine going on without the chain mutex.
miner_lock_chain_skipped(n) ==
    IF n.chain_poisoned THEN miner_panics(n, FALSE, FALSE)
    ELSE [n EXCEPT !.miner_task = "locked"]

\* The closure mine: chain_miner_ref.lock().unwrap()
miner_lock_chain(n) ==
    IF n.chain_poisoned THEN miner_panics(n, FALSE, FALSE)
    ELSE [n EXCEPT !.chain_lock = "miner", !.miner_task = "locked"]

\* The closure mine: the end of miner.mine(&chain) with the result end,
\* the guard of the miner mutex living until the end of the match.
miner_mined(n, end) ==
    IF end.tag = "Panic" THEN miner_panics(n, TRUE, TRUE)
    ELSE IF end.tag = "Ok"
         THEN [n EXCEPT !.miner_lock = "miner", !.miner_task = "mined",
                        !.block = end.block]
         ELSE [n EXCEPT !.chain_lock = "free", !.miner_task = "recv"]

\* The closure mine: the end of chain.add_block(block) and of the closure.
miner_added(n, tag) ==
    IF tag = "Panic" THEN miner_panics(n, TRUE, TRUE)
    ELSE [n EXCEPT !.chain_lock = "free", !.miner_lock = "free",
                   !.miner_task = "recv", !.block = NoBlock]

\* POST /chain: miner_ref.lock().unwrap()
handler_lock_miner(n) ==
    IF n.miner_poisoned THEN handler_panics(n, FALSE, FALSE)
    ELSE [n EXCEPT !.miner_lock = "handler", !.handler = "locked"]

\* POST /chain: the end of miner.add_tx(&chain_ref.lock().unwrap(), tx),
\* valid being what validate_tx has returned, and of the handler: the
\* command is sent when the transaction is accepted.
handler_added(n, valid) ==
    IF valid = "P" THEN handler_panics(n, TRUE, TRUE)
    ELSE [n EXCEPT !.miner_lock = "free", !.handler = "idle",
                   !.channel = IF valid = "T" /\ n.miner_task \notin {"exited", "panicked"}
                               THEN Append(@, "Mine") ELSE @]

\* The Ctrl-C handler: miner_sender.send(MinerCommand::Stop).unwrap(),
\* which panics once the miner task has dropped the receiver.
signal_stop_miner(n) ==
    IF n.miner_task \in {"exited", "panicked"}
    THEN [n EXCEPT !.signal = "panicked"]
    ELSE [n EXCEPT !.signal = "stop_server", !.channel = Append(@, "Stop")]

\* The Ctrl-C handler: server_sender.send(()).unwrap()
signal_stop_server(n) == [n EXCEPT !.signal = "done"]

\* miner_task.join().unwrap()
main_join_miner(n) ==
    [n EXCEPT !.main = IF n.miner_task = "panicked" THEN "panicked" ELSE "join_server"]

\* server_task.join().unwrap()
main_join_server(n) == [n EXCEPT !.main = "save"]

\* The chain is taken out of its mutex, which panics when the mutex is
\* poisoned, and written to the file.
main_save(n) ==
    [n EXCEPT !.main = IF n.chain_poisoned THEN "panicked" ELSE "saved"]

\* The longest the command channel gets before requests are held back.
MaxQueue == 2

\* The transactions a client posts.
PostChoices(l, pool) == AddTxChoices(l, pool)

\* The rules command_new gives the chain: a target with leading zeros,
\* every coin minted in the genesis block.
NodeRules == ConsensusRules_new(from_leading_zeros(1), BaseCoins, HalvingInf)

\* command_start on the chain command_new has written, in a build with or
\* without overflow checks.
InitNode ==
    /\ rules = NodeRules
    /\ overflow_checks \in BOOLEAN
    /\ list = new_with_consensus(1, rules)
    /\ utxos = UtxoPool_new(list)
    /\ pc = "idle"
    /\ arg = NoBlock
    /\ result = NoResult
    /\ miner_pool = Miner_new
    /\ node = Node_new

\* A POST /chain request reaches the handler and its body is parsed.
HandlerRequest ==
    /\ Alive(node)
    /\ node.handler = "idle"
    /\ node.server = "running"
    /\ Len(node.channel) < MaxQueue
    /\ Cardinality(DOMAIN miner_pool) < MaxPool
    /\ Len(list) < MaxHeight
    /\ node' = [node EXCEPT !.handler = "parsed"]
    /\ UNCHANGED <<rules, list, utxos, overflow_checks, pc, arg, result, miner_pool>>

HandlerLockMiner ==
    /\ Alive(node)
    /\ node.handler = "parsed"
    /\ node.miner_lock = "free"
    /\ node' = handler_lock_miner(node)
    /\ UNCHANGED <<rules, list, utxos, overflow_checks, pc, arg, result, miner_pool>>

handler_add_tx_ends(tx, valid) ==
    /\ miner_pool' = IF valid = "P" THEN miner_pool ELSE add_tx_pool(miner_pool, tx, valid)
    /\ node' = handler_added(node, valid)

\* The handler, holding the miner mutex, takes the chain mutex for add_tx.
HandlerAddTx ==
    /\ Alive(node)
    /\ node.handler = "locked"
    /\ node.chain_lock = "free"
    /\ IF node.chain_poisoned
       THEN /\ node' = handler_panics(node, TRUE, TRUE)
            /\ miner_pool' = miner_pool
       ELSE \E tx \in PostChoices(list, utxos) :
                handler_add_tx_ends(tx, validate_tx(list, tx, utxos))
    /\ UNCHANGED <<rules, list, utxos, overflow_checks, pc, arg, result>>

MinerRecv ==
    /\ Alive(node)
    /\ node.miner_task = "recv"
    /\ node.channel # << >>
    /\ node' = miner_recv(node)
    /\ UNCHANGED <<rules, list, utxos, overflow_checks, pc, arg, result, miner_pool>>

MinerTimeout ==
    /\ Alive(node)
    /\ node.miner_task = "recv"
    /\ node.channel = << >>
    /\ Len(list) < MaxHeight
    /\ node' = miner_timeout(node)
    /\ UNCHANGED <<rules, list, utxos, overflow_checks, pc, arg, result, miner_pool>>

MinerCheckPool ==
    /\ Alive(node)
    /\ node.miner_task = "got_mine"
    /\ node.miner_lock = "free"
    /\ node' = miner_check_pool(node, miner_pool)
    /\ UNCHANGED <<rules, list, utxos, overflow_checks, pc, arg, result, miner_pool>>

MinerLockChain ==
    /\ Alive(node)
    /\ node.miner_task = "mine"
    /\ node.chain_lock = "free"
    /\ node' = miner_lock_chain(node)
    /\ UNCHANGED <<rules, list, utxos, overflow_checks, pc, arg, result, miner_pool>>

miner_mine_ends(end) ==
    /\ miner_pool' = end.pool
    /\ node' = miner_mined(node, end)

\* The miner task, holding the chain mutex, takes the miner mutex for mine.
MinerMine ==
    /\ Alive(node)
    /\ node.miner_task = "locked"
    /\ node.miner_lock = "free"
    /\ IF node.miner_poisoned
       THEN /\ node' = miner_panics(node, TRUE, FALSE)
            /\ miner_pool' = miner_pool
       ELSE \E sample \in Samples(miner_pool) :
                miner_mine_ends(mine(list, rules, utxos, miner_pool, sample))
    /\ UNCHANGED <<rules, list, utxos, overflow_checks, pc, arg, result>>

miner_add_block_ends(tag) ==
    /\ list' = add_block_list(list, tag, node.block)
    /\ utxos' = add_block_utxos(list, utxos, tag, node.block)
    /\ node' = miner_added(node, tag)

MinerAddBlock ==
    /\ Alive(node)
    /\ node.miner_task = "mined"
    /\ miner_add_block_ends(add_block_tag(list, rules, utxos, node.block))
    /\ UNCHANGED <<rules, overflow_checks, pc, arg, result, miner_pool>>

\* SIGINT is delivered and the Ctrl-C handler starts.
Sigint ==
    /\ Alive(node)
    /\ node.signal = "none"
    /\ node' = [node EXCEPT !.signal = "stop_miner"]
    /\ UNCHANGED <<rules, list, utxos, overflow_checks, pc, arg, result, miner_pool>>

SignalStopMiner ==
    /\ Alive(node)
    /\ node.signal = "stop_miner"
    /\ node' = signal_stop_miner(node)
    /\ UNCHANGED <<rules, list, utxos, overflow_checks, pc, arg, result, miner_pool>>

SignalStopServer ==
    /\ Alive(node)
    /\ node.signal = "stop_server"
    /\ node' = signal_stop_server(node)
    /\ UNCHANGED <<rules, list, utxos, overflow_checks, pc, arg, result, miner_pool>>

\* The server thread finds the stop message and returns.
ServerStop ==
    /\ Alive(node)
    /\ node.signal = "done"
    /\ node.server = "running"
    /\ node' = [node EXCEPT !.server = "stopped"]
    /\ UNCHANGED <<rules, list, utxos, overflow_checks, pc, arg, result, miner_pool>>

MainJoinMiner ==
    /\ node.main = "join_miner"
    /\ node.miner_task \in {"exited", "panicked"}
    /\ node' = main_join_miner(node)
    /\ UNCHANGED <<rules, list, utxos, overflow_checks, pc, arg, result, miner_pool>>

MainJoinServer ==
    /\ node.main = "join_server"
    /\ node.server = "stopped"
    /\ node' = main_join_server(node)
    /\ UNCHANGED <<rules, list, utxos, overflow_checks, pc, arg, result, miner_pool>>

MainSave ==
    /\ node.main = "save"
    /\ node' = main_save(node)
    /\ UNCHANGED <<rules, list, utxos, overflow_checks, pc, arg, result, miner_pool>>

Handler == HandlerLockMiner \/ HandlerAddTx

CtrlC == SignalStopMiner \/ SignalStopServer

MainThread == MainJoinMiner \/ MainJoinServer \/ MainSave

NextNode ==
    \/ HandlerRequest
    \/ HandlerLockMiner
    \/ HandlerAddTx
    \/ MinerRecv
    \/ MinerTimeout
    \/ MinerCheckPool
    \/ MinerLockChain
    \/ MinerMine
    \/ MinerAddBlock
    \/ Sigint
    \/ SignalStopMiner
    \/ SignalStopServer
    \/ ServerStop
    \/ MainJoinMiner
    \/ MainJoinServer
    \/ MainSave

SpecNode == InitNode /\ [][NextNode]_vars

\* When the miner task can run mine: it holds the chain mutex and the
\* miner mutex is free.
MinerMineEnabled ==
    Alive(node) /\ node.miner_task = "locked" /\ node.miner_lock = "free"

\* When the miner task can run add_block.
MinerAddBlockEnabled == Alive(node) /\ node.miner_task = "mined"

\* The node with every thread scheduled fairly: a thread that can take a
\* step takes it in the end, and recv_timeout returns in the end. The
\* weak fairness of MinerMine and of MinerAddBlock is written out, with
\* the guard of the action for ENABLED.
SpecNodeFair ==
    /\ SpecNode
    /\ WF_vars(MinerRecv \/ MinerTimeout \/ MinerCheckPool \/ MinerLockChain)
    /\ ([]<>~MinerMineEnabled \/ []<><<MinerMine>>_vars)
    /\ ([]<>~MinerAddBlockEnabled \/ []<><<MinerAddBlock>>_vars)
    /\ WF_vars(Handler)
    /\ WF_vars(CtrlC)
    /\ WF_vars(ServerStop)
    /\ WF_vars(MainThread)

\* ------------------------------------------- the node on a longer chain
\* The node started on a chain file whose blocks have left several outputs
\* unspent, so that the mempool can hold more transactions than one round
\* of mining takes. The two handlers are taken whole: the POST handler
\* changes the mempool holding both mutexes, and the miner task runs mine
\* and add_block holding both.

MaxMempool == 6

MaxRounds == 1

StartRules == ConsensusRules_new(TargetMAX, BaseCoins, HalvingNone)

\* The first output of the last transaction of the tip.
TipOutput(l) ==
    [hash |-> get_last_block(l).data.transactions[
                  Len(get_last_block(l).data.transactions)].hash,
     index |-> 0,
     output |-> get_last_block(l).data.transactions[
                    Len(get_last_block(l).data.transactions)].data.outputs[1]]

\* A block on the tip: its owner splits the coinbase output of the tip in
\* two, and a coinbase claims the reward.
StartBlock(l, r) ==
    NewBlock(l, <<Spend(<<GoodInput(TipOutput(l))>>,
                        <<Pay(1, 2), Pay(TipOutput(l).output.value - 1, 2)>>),
                  new_coinbase_tx(2, reward(r, Len(l)), Len(l) - 1)>>)

RECURSIVE Grow(_, _, _)
Grow(l, r, n) == IF n = 0 THEN l ELSE Grow(append(l, StartBlock(l, r)), r, n - 1)

\* A block on the tip that holds the split alone.
SplitBlock(l) ==
    NewBlock(l, <<Spend(<<GoodInput(TipOutput(l))>>,
                        <<Pay(1, 2), Pay(TipOutput(l).output.value - 1, 2)>>)>>)

\* The chain of the file: the genesis block, blocks of a split and a
\* coinbase, and a last block of a split.
StartChain ==
    append(Grow(new_with_consensus(1, StartRules), StartRules, MaxHeight - 1),
           SplitBlock(Grow(new_with_consensus(1, StartRules), StartRules,
                           MaxHeight - 1)))

\* command_start: the chain is loaded and validate_chain has accepted it.
InitMempool ==
    /\ rules = StartRules
    /\ overflow_checks \in BOOLEAN
    /\ list = StartChain
    /\ utxos = UtxoPool_new(list)
    /\ validate_chain(list, rules, utxos) = "T"
    /\ pc = "idle"
    /\ arg = NoBlock
    /\ result = NoResult
    /\ miner_pool = Miner_new
    /\ node = Node_new

\* The transactions posted: spends of an unspent output by its owner, and
\* spends of the spent ones.
MempoolChoices(l, pool) ==
    PlainSpends(l, pool)
        \cup {Spend(<<GoodInput(o)>>, <<Pay(o.output.value, 2)>>) :
                o \in ChainOutputs(l) \ Unspent(l, pool)}

mempool_post_ends(tx, valid) ==
    /\ miner_pool' = add_tx_pool(miner_pool, tx, valid)
    /\ pc' = IF valid = "P" THEN "aborted" ELSE pc

\* The POST /chain handler: miner.add_tx(&chain, tx).
MempoolPost ==
    /\ pc = "idle"
    /\ Cardinality(DOMAIN miner_pool) < MaxMempool
    /\ Len(list) < Len(StartChain) + MaxRounds
    /\ \E tx \in MempoolChoices(list, utxos) :
           mempool_post_ends(tx, validate_tx(list, tx, utxos))
    /\ UNCHANGED <<rules, list, utxos, overflow_checks, arg, result, node>>

mempool_round_added(end, tag) ==
    /\ list' = add_block_list(list, tag, end.block)
    /\ utxos' = add_block_utxos(list, utxos, tag, end.block)
    /\ miner_pool' = end.pool
    /\ pc' = IF tag = "Panic" THEN "aborted" ELSE pc

mempool_round_ends(end) ==
    IF end.tag = "Ok"
    THEN mempool_round_added(end, add_block_tag(list, rules, utxos, end.block))
    ELSE /\ miner_pool' = end.pool
         /\ pc' = IF end.tag = "Panic" THEN "aborted" ELSE pc
         /\ UNCHANGED <<list, utxos>>

\* The closure mine of the miner task: mine, then add_block of its block.
MempoolRound ==
    /\ pc = "idle"
    /\ Len(list) < Len(StartChain) + MaxRounds
    /\ \E sample \in Samples(miner_pool) :
           mempool_round_ends(mine(list, rules, utxos, miner_pool, sample))
    /\ UNCHANGED <<rules, overflow_checks, arg, result, node>>

NextMempool == MempoolPost \/ MempoolRound

SpecMempool == InitMempool /\ [][NextMempool]_vars

\* ------------------------------ transactions that share their inputs
\* validate_new_tx on the chains add_block grows, called with transactions
\* that carry the same signed inputs and differ in their outputs.

\* The input lists: an unspent output, or both outputs of a transaction,
\* signed by the owner as utxo::into_inputs does, and an unspent output
\* signed by another key.
SharedInputs(l, pool) ==
    {<<GoodInput(o)>> : o \in Unspent(l, pool)}
        \cup {<<GoodInput(p[1]), GoodInput(p[2])>> :
                p \in {q \in Unspent(l, pool) \X Unspent(l, pool) :
                          q[1].hash = q[2].hash /\ q[1].index < q[2].index}}
        \cup {<<InputOf(o, OtherKey(o.output.pubkey), o.hash)>> :
                o \in Unspent(l, pool)}

\* The output lists: every value to key 2, one coin to key 1, and two
\* outputs to both keys.
SharedOutputs ==
    {<<Pay(v, 2)>> : v \in 1..MaxValue}
        \cup {<<Pay(1, 1)>>, <<Pay(1, 1), Pay(1, 2)>>}

CallAddBlockOnTip ==
    /\ pc = "idle"
    /\ Len(list) < MaxHeight
    /\ \E block \in AppendChoices(list, rules, utxos) : arg' = block
    /\ pc' = "called"
    /\ result' = NoResult
    /\ UNCHANGED <<rules, list, utxos, overflow_checks, miner_pool, node>>

CallValidateShared ==
    /\ pc = "idle"
    /\ \E inputs \in SharedInputs(list, utxos) : \E outputs \in SharedOutputs :
           arg' = Spend(inputs, outputs)
    /\ pc' = "validate_new_tx"
    /\ result' = NoResult
    /\ UNCHANGED <<rules, list, utxos, overflow_checks, miner_pool, node>>

NextShared ==
    \/ CallAddBlockOnTip
    \/ add_block
    \/ CallValidateShared
    \/ Chain_validate_new_tx
    \/ Return

SpecShared == Init /\ [][NextShared]_vars

\* ----------------------------------------------------------------- claims

AllTxs(l) ==
    UNION {{l[i].data.transactions[j] : j \in 1..Len(l[i].data.transactions)} :
           i \in 1..Len(l)}

InputRefs(tx) ==
    {PoolKey(tx.data.inputs[k].hash, tx.data.inputs[k].index) :
        k \in 1..Len(tx.data.inputs)}

OutputRefs(tx) == {PoolKey(tx.hash, k - 1) : k \in 1..Len(tx.data.outputs)}

Created(l) == UNION {OutputRefs(tx) : tx \in AllTxs(l)}

Referenced(l) == UNION {InputRefs(tx) : tx \in AllTxs(l)}

Errors == {"TargetNotSatisfied", "InvalidBlock", "InvalidPrevHash"}

\* C1: whenever add_block returns an error (TargetNotSatisfied,
\* InvalidBlock or InvalidPrevHash), the block list (and so the tip) and
\* the UTXO pool are what they were before the call.
C1_AtomicOnFailure ==
    [][(pc = "called" /\ result'.tag \in Errors)
          => (list' = list /\ utxos' = utxos)]_vars

\* C1 witness: add_block has rejected a block offered to a chain of two
\* blocks with a pool that is not empty.
C1_Witness ==
    /\ pc = "done"
    /\ result.tag = "InvalidBlock"
    /\ Len(list) = 2
    /\ DOMAIN utxos # {}

\* C2: after any sequence of add_block calls, successful or failed, the
\* pool maintained by add_block equals the pool replayed from the empty
\* pool over the blocks of the chain, genesis first.
C2_PoolIsReplay == utxos = UtxoPool_new(list)

\* C2 witness: two blocks were added after the genesis, the last call has
\* returned Ok, and the pool holds several outputs.
C2_Witness ==
    /\ pc = "done"
    /\ result.tag = "Ok"
    /\ Len(list) = 3
    /\ Cardinality(DOMAIN utxos) >= 2

\* C3: every block after the genesis names the hash of the block before
\* it as its prev_hash.
C3_Linked ==
    \A i \in 2..Len(list) : list[i].data.prev_hash = list[i - 1].hash

\* C3 witness: append has pushed a second block after the genesis, after
\* having refused a block.
C3_Witness ==
    /\ pc = "done"
    /\ result.tag = "Ok"
    /\ Len(list) = 3

\* C4 (as claimed): the keys of the pool are the (hash, index) pairs some
\* transaction of the chain creates minus those some input of the chain
\* references.
C4_PoolKeysDerived == DOMAIN utxos = Created(list) \ Referenced(list)

\* The positions <<transaction, input>> of the inputs of a block, and the
\* output each names.
InputPositions(block) ==
    UNION {{<<t, i>> : i \in 1..Len(block.data.transactions[t].data.inputs)} :
           t \in 1..Len(block.data.transactions)}

RefAt(block, p) ==
    PoolKey(block.data.transactions[p[1]].data.inputs[p[2]].hash,
            block.data.transactions[p[1]].data.inputs[p[2]].index)

DuplicateRef(block) ==
    \E p, q \in InputPositions(block) :
        p # q /\ RefAt(block, p) = RefAt(block, q)

\* C5 (as claimed, for the blocks that reach validation: a block whose hash
\* exceeds the target is answered TargetNotSatisfied before): a block in
\* which two inputs name the same (hash, index), in two transactions or in
\* one, is answered InvalidBlock, and list and pool stay as they were.
C5_DoubleSpendRejected ==
    [][(pc = "called" /\ validate_target(rules, arg.hash) /\ DuplicateRef(arg))
          => (result'.tag = "InvalidBlock" /\ list' = list /\ utxos' = utxos)]_vars

\* Sums over the naturals, whatever the width of the program's integers.
TrueOut(tx) == SumSeq([i \in 1..Len(tx.data.outputs) |-> tx.data.outputs[i].value])

TrueIn(l, tx) ==
    SumSeq([i \in 1..Len(tx.data.inputs) |->
        LET q == query_tx(l, tx.data.inputs[i].hash)
        IN  IF q.found /\ tx.data.inputs[i].index < Len(q.tx.data.outputs)
            THEN q.tx.data.outputs[tx.data.inputs[i].index + 1].value
            ELSE 0])

TrueFees(l, txs) ==
    SumSeq([i \in 1..Len(txs) |->
        IF is_coinbase(txs[i]) THEN 0 ELSE TrueIn(l, txs[i]) - TrueOut(txs[i])])

RECURSIVE SumOver(_, _)
SumOver(pool, keys) ==
    IF keys = {} THEN 0
    ELSE LET k == CHOOSE x \in keys : TRUE
         IN  pool[k].value + SumOver(pool, keys \ {k})

PoolTotal(pool) == SumOver(pool, DOMAIN pool)

RewardSum(r, n) == SumSeq([i \in 1..n |-> reward(r, i - 1)])

NoFees(l) ==
    \A i \in 2..Len(l) : \A j \in 1..Len(l[i].data.transactions) :
        LET tx == l[i].data.transactions[j]
        IN  is_coinbase(tx) \/ TrueIn(l, tx) = TrueOut(tx)

\* What the last transaction of a block mints and collects: the outputs of
\* its coinbase, nothing without one.
Claimed(txs) ==
    IF txs # << >> /\ is_coinbase(txs[Len(txs)]) THEN TrueOut(txs[Len(txs)])
    ELSE 0

\* Every block after the genesis claims exactly its reward and its fees.
Preserving(l, r) ==
    \A i \in 2..Len(l) :
        Claimed(l[i].data.transactions)
            = reward(r, i - 1) + TrueFees(l, l[i].data.transactions)

\* C6 (as claimed, for the chains whose blocks each claim their reward and
\* their fees in full, so that nothing is left unminted or unclaimed): the
\* values of the pool total base_coins * n under Halving::None when no
\* transaction pays a fee, base_coins under Halving::Inf, and the sum of
\* reward(i), i < n, under a halving period.
C6_SumPreservation ==
    Preserving(list, rules) =>
        /\ (rules.halving.kind = "None" /\ NoFees(list))
              => PoolTotal(utxos) = rules.base_coins * Len(list)
        /\ rules.halving.kind = "Inf" => PoolTotal(utxos) = rules.base_coins
        /\ rules.halving.kind = "Height"
              => PoolTotal(utxos) = RewardSum(rules, Len(list))

WronglySigned(l, block) ==
    \E p \in InputPositions(block) :
        LET input == block.data.transactions[p[1]].data.inputs[p[2]]
            q == query_tx(l, input.hash)
        IN  /\ q.found
            /\ input.index < Len(q.tx.data.outputs)
            /\ input.signature.key # q.tx.data.outputs[input.index + 1].pubkey

\* C7 (as claimed): a block whose hash satisfies the target and in which
\* an input of a regular transaction is signed by another key than the
\* one that owns the output it names is answered InvalidBlock.
C7_SignatureBinding ==
    [][(pc = "called" /\ validate_target(rules, arg.hash)
            /\ WronglySigned(list, arg))
          => result'.tag = "InvalidBlock"]_vars

\* C8: a block whose hash exceeds the target is answered TargetNotSatisfied
\* whatever else is wrong with it, and list and pool stay as they were; a
\* block that meets the target and that validate_new_block refuses is
\* answered InvalidBlock.
C8_TargetFirst ==
    [][pc = "called" =>
          /\ BE(arg.hash) > rules.target
                => (result'.tag = "TargetNotSatisfied"
                      /\ list' = list /\ utxos' = utxos)
          /\ (BE(arg.hash) <= rules.target
                /\ validate_new_block(list, rules, utxos, arg) = "F")
                => result'.tag = "InvalidBlock"]_vars

\* C8 witness: a block that misses the target and does not name the tip
\* either has been answered TargetNotSatisfied.
C8_Witness ==
    /\ pc = "done"
    /\ result.tag = "TargetNotSatisfied"
    /\ arg.data.prev_hash # get_last_block(list).hash
    /\ Len(list) = 2

LoneCoinbase(block) ==
    /\ Len(block.data.transactions) = 1
    /\ is_coinbase(block.data.transactions[1])

\* C9: every block after the genesis holds a regular transaction, at most
\* one coinbase, and the coinbase only as its last transaction; a block
\* made of a coinbase alone is not accepted.
C9_BlockShape ==
    /\ \A i \in 2..Len(list) :
          LET txs == list[i].data.transactions
          IN  /\ \E j \in 1..Len(txs) : ~is_coinbase(txs[j])
              /\ Cardinality({j \in 1..Len(txs) : is_coinbase(txs[j])}) <= 1
              /\ \A j \in 1..Len(txs) : is_coinbase(txs[j]) => j = Len(txs)
    /\ (pc \in {"done", "aborted"} /\ LoneCoinbase(arg))
          => result.tag \in {"InvalidBlock", "TargetNotSatisfied"}

\* C9 witness: a lone coinbase has been refused by a chain that holds a
\* block of several transactions ending with a coinbase.
C9_Witness ==
    /\ pc = "done"
    /\ LoneCoinbase(arg)
    /\ result.tag = "InvalidBlock"
    /\ \E i \in 2..Len(list) :
          /\ Len(list[i].data.transactions) >= 2
          /\ is_coinbase(list[i].data.transactions[Len(list[i].data.transactions)])

\* C10 (as claimed, its necessary condition): the coinbase of a block whose
\* predecessor sits at index H carries the timestamp H and outputs that
\* total more than 0 and at most reward(H + 1) plus the fees of the block.
C10_CoinbaseBound ==
    \A i \in 2..Len(list) :
        LET txs == list[i].data.transactions
            cb == txs[Len(txs)]
        IN  is_coinbase(cb) =>
                /\ cb.data.timestamp = Some(i - 2)
                /\ TrueOut(cb) > 0
                /\ TrueOut(cb) <= reward(rules, i - 1) + TrueFees(list, txs)

\* C12: Blockchain::append succeeds exactly when the block's prev_hash is
\* the hash of the last block, and then the block is the new last one;
\* otherwise it answers InvalidPrevHash and the list, hence the height, is
\* as before.
C12_AppendIffLinked ==
    [][pc = "appending"
          => IF arg.data.prev_hash = list[Len(list)].hash
             THEN /\ result'.tag = "Ok"
                  /\ list' = Append(list, arg)
             ELSE /\ result'.tag = "InvalidPrevHash"
                  /\ list' = list
                  /\ height(list') = height(list)]_vars

\* An append refused on a chain that has grown.
C12_Witness ==
    /\ pc = "done"
    /\ result.tag = "InvalidPrevHash"
    /\ arg.data.prev_hash # list[Len(list)].hash
    /\ Len(list) = 2

\* C13: no step removes or alters a block of the list; a successful
\* add_block makes the height one more and returns the index of the new
\* block, which is the height before the call; a call that fails leaves
\* the height as it was.
C13_AppendOnly ==
    [][/\ Len(list') >= Len(list)
       /\ \A i \in 1..Len(list) : list'[i] = list[i]
       /\ pc = "called"
            => IF result'.tag = "Ok"
               THEN /\ height(list') = height(list) + 1
                    /\ result'.value = height(list)
                    /\ result'.value = height(list') - 1
                    /\ list'[result'.value + 1] = arg
               ELSE height(list') = height(list)]_vars

\* The second block added: add_block has returned index 2.
C13_Witness ==
    /\ pc = "done"
    /\ result.tag = "Ok"
    /\ result.value = 2
    /\ height(list) = 3

\* The reward schedule on the integers.
Schedule(r, h) ==
    CASE r.halving.kind = "None" -> r.base_coins
      [] r.halving.kind = "Height" ->
            r.base_coins \div ((h \div r.halving.value) + 1)
      [] r.halving.kind = "Inf" -> IF h = 0 THEN r.base_coins ELSE 0

\* C14: reward(height) is base_coins under Halving::None, base_coins /
\* ((height / h) + 1) under a period h > 0, and base_coins at height 0 and
\* 0 elsewhere under Halving::Inf, at every height.
C14_RewardSchedule ==
    [][(pc = "reward" /\ rules.halving # HalvingHeight(0))
          => (result'.tag = "Ok" /\ result'.value = Schedule(rules, arg))]_vars

\* C15: under a halving period of zero no call of reward returns a value:
\* the call ends the process.
C15_ZeroPeriodFatal ==
    [][(pc = "reward" /\ rules.halving = HalvingHeight(0))
          => (result'.tag = "Panic" /\ pc' = "aborted")]_vars

\* reward called under a zero period, at a height above 0.
C15_Witness ==
    /\ pc = "aborted"
    /\ rules.halving = HalvingHeight(0)
    /\ arg \in 1..MaxValue
    /\ result.tag = "Panic"

\* C16: validate_target accepts a hash exactly when the integer read from
\* it is at most the target; a hash accepted under a target is accepted
\* under every larger one, and Target::MAX accepts every hash.
C16_TargetMonotone ==
    [][pc = "validate_target"
          => /\ result'.tag = B(BE(arg) <= rules.target)
             /\ \A t2 \in rules.target..TargetMAX :
                    result'.tag = "T"
                        => validate_target([rules EXCEPT !.target = t2], arg)
             /\ validate_target([rules EXCEPT !.target = TargetMAX], arg)
             /\ rules.target = TargetMAX => result'.tag = "T"]_vars

\* A hash refused under a target below the integer read from it.
C16_Witness ==
    /\ pc = "done"
    /\ result.tag = "F"
    /\ rules.target < TargetMAX
    /\ arg \in HashChoices
    /\ BE(arg) > rules.target

\* The positions of the transactions of block that create, and that
\* consume, the pool key k.
Creators(block, k) ==
    {j \in 1..Len(block.data.transactions) :
        k \in OutputRefs(block.data.transactions[j])}

Consumers(block, k) ==
    {j \in 1..Len(block.data.transactions) :
        k \in InputRefs(block.data.transactions[j])}

BlockKeys(block) ==
    UNION {OutputRefs(block.data.transactions[j])
              \cup InputRefs(block.data.transactions[j]) :
           j \in 1..Len(block.data.transactions)}

\* Whether k is in the pool once block has been applied in block order,
\* each transaction inserting before it removes: a key some transaction
\* consumes stays only if a later transaction creates it.
PresentAfter(pool, block, k) ==
    IF Consumers(block, k) = {}
    THEN k \in DOMAIN pool \/ Creators(block, k) # {}
    ELSE /\ Creators(block, k) # {}
         /\ Max(Creators(block, k)) > Max(Consumers(block, k))

\* C17: update goes through the transactions in block order and, for each,
\* inserts its outputs before it removes what its inputs name: an output
\* created by an earlier transaction and consumed by a later one of the
\* same block is absent afterwards, one consumed by an earlier transaction
\* and created again by a later one is present, with the later output.
C17_UpdateOrder ==
    [][pc = "updating"
          => \A k \in DOMAIN utxos \cup DOMAIN utxos' \cup BlockKeys(arg) :
                /\ k \in DOMAIN utxos' <=> PresentAfter(utxos, arg, k)
                /\ (k \in DOMAIN utxos' /\ Creators(arg, k) # {})
                      => utxos'[k] = arg.data.transactions[Max(Creators(arg, k))]
                                        .data.outputs[k[2] + 1]
                /\ (k \in DOMAIN utxos' /\ Creators(arg, k) = {})
                      => utxos'[k] = utxos[k]]_vars

\* The last block holds a transaction that spends an output of the
\* transaction before it, and the pool does not hold that output.
C17_Witness ==
    /\ pc = "done"
    /\ Len(list) >= 2
    /\ \E k \in BlockKeys(arg) :
          /\ Creators(arg, k) # {}
          /\ Consumers(arg, k) # {}
          /\ Max(Creators(arg, k)) < Max(Consumers(arg, k))
          /\ k \notin DOMAIN utxos
    /\ list[Len(list)] = arg

\* The conditions of a valid regular transaction, with sums over the
\* naturals.
Resolves(l, input) ==
    /\ query_tx(l, input.hash).found
    /\ input.index < Len(query_tx(l, input.hash).tx.data.outputs)

SignedByOwner(l, input) ==
    /\ Resolves(l, input)
    /\ verify(query_tx(l, input.hash).tx.data.outputs[input.index + 1].pubkey,
              input.hash, input.signature)

TrueValid(l, pool, tx) ==
    /\ tx = Transaction_new(tx.data)
    /\ Len(tx.data.inputs) >= 1
    /\ Len(tx.data.outputs) >= 1
    /\ \A i \in 1..Len(tx.data.inputs) : SignedByOwner(l, tx.data.inputs[i])
    /\ \A i \in 1..Len(tx.data.inputs) :
          PoolKey(tx.data.inputs[i].hash, tx.data.inputs[i].index) \in DOMAIN pool
    /\ TrueOut(tx) > 0
    /\ TrueOut(tx) <= TrueIn(l, tx)
    /\ tx.data.timestamp = None

\* C11 (as claimed): validate_new_tx(tx) returns true when the hash of tx
\* matches its data, it has an input and an output, every input is signed
\* by the owner of the output it names and names a pair of the pool, the
\* total output is above 0 and at most the total input, and there is no
\* timestamp; it returns false otherwise.
C11_ValidateNewTx ==
    [][pc = "validate_new_tx"
          => result'.tag = B(TrueValid(list, utxos, arg))]_vars

\* The pool with tx inserted under its hash.
Inserted(mp, tx) ==
    [h \in DOMAIN mp \cup {tx.hash} |-> IF h = tx.hash THEN tx ELSE mp[h]]

\* C18 (as claimed): add_tx(chain, tx) inserts tx into the miner's pool
\* and returns true when tx is a valid regular transaction against the
\* chain's pool, returns false and leaves the miner's pool alone when it is
\* not, and changes neither the chain nor its pool.
C18_AddTx ==
    [][pc = "add_tx"
          => /\ IF TrueValid(list, utxos, arg)
                THEN result'.tag = "T" /\ miner_pool' = Inserted(miner_pool, arg)
                ELSE result'.tag = "F" /\ miner_pool' = miner_pool
             /\ list' = list
             /\ utxos' = utxos]_vars

\* C19 (as claimed): with fewer than two transactions in the pool, so
\* that fewer than two are chosen, mine returns NotEnoughTransactions and
\* leaves the pool as it was.
C19_NotEnoughBelowTwo ==
    [][(pc = "mining" /\ Cardinality(DOMAIN miner_pool) < 2)
          => (result'.tag = "NotEnoughTransactions" /\ miner_pool' = miner_pool)]_vars

\* C19 (amended): mine returns NotEnoughTransactions exactly when no
\* transaction is chosen, which is when the pool is empty, and the pool is
\* then as it was; one transaction in the pool is enough for mine to go on.
C19_NotEnoughWhenEmpty ==
    [][pc = "mining"
          => /\ result'.tag = "NotEnoughTransactions" <=> miner_pool = Miner_new
             /\ result'.tag = "NotEnoughTransactions" => miner_pool' = miner_pool]_vars

\* mine has returned NotEnoughTransactions on an empty pool, after a
\* round that mined a block.
C19_Witness ==
    /\ pc = "mined"
    /\ result.tag = "NotEnoughTransactions"
    /\ miner_pool = Miner_new
    /\ Len(list) >= 2

\* The regular transactions of a block.
RegularTxs(block) ==
    {j \in 1..Len(block.data.transactions) :
        ~is_coinbase(block.data.transactions[j])}

\* Whether the transactions at i and j of block name a common pair.
Conflict(block, i, j) ==
    get_utxos(block.data.transactions[i])
        \cap get_utxos(block.data.transactions[j]) # {}

\* C20: no two regular transactions of a block mine returns name the same
\* (hash, index) pair, so of two transactions of the pool that spend the
\* same output at most one is in the block.
C20_NonConflicting ==
    [][(pc = "mining" /\ result'.tag = "Ok")
          => /\ \A i, j \in RegularTxs(result'.value) :
                    i # j => ~Conflict(result'.value, i, j)
             /\ \A h1, h2 \in DOMAIN miner_pool :
                    (h1 # h2 /\ get_utxos(miner_pool[h1])
                                  \cap get_utxos(miner_pool[h2]) # {})
                      => ~(\E i, j \in RegularTxs(result'.value) :
                             /\ result'.value.data.transactions[i] = miner_pool[h1]
                             /\ result'.value.data.transactions[j] = miner_pool[h2])]_vars

\* mine has returned a block with two regular transactions.
C20_Witness ==
    /\ pc = "mined"
    /\ result.tag = "Ok"
    /\ Cardinality(RegularTxs(result.value)) >= 2

\* The last transaction of a block.
LastTx(block) == block.data.transactions[Len(block.data.transactions)]

\* Whether block, mined on the chain l, ends with the coinbase the claim
\* describes exactly when value, the reward plus the fees, is above 0.
CoinbaseAsClaimed(l, block, value) ==
    /\ is_coinbase(LastTx(block)) <=> value > 0
    /\ \A j \in 1..(Len(block.data.transactions) - 1) :
          ~is_coinbase(block.data.transactions[j])
    /\ is_coinbase(LastTx(block))
          => /\ LastTx(block).data.outputs = <<[value |-> value, pubkey |-> recipient]>>
             /\ LastTx(block).data.timestamp = Some(height(l) - 1)

\* C21: a block mine returns on a chain of height n ends with a coinbase
\* exactly when reward(n) plus the fees of the chosen transactions is above
\* 0; the coinbase has one output of that value to the recipient and the
\* timestamp n - 1.
C21_MinedCoinbase ==
    [][(pc = "mining" /\ result'.tag = "Ok")
          => CoinbaseAsClaimed(list, result'.value,
                 reward(rules, height(list))
                     + TrueFees(list, result'.value.data.transactions))]_vars

\* C22: when mine returns NoBlockFound the mempool holds exactly the
\* transactions it held before the call.
C22_NoBlockFoundKeepsPool ==
    [][(pc = "mining" /\ result'.tag = "NoBlockFound")
          => miner_pool' = miner_pool]_vars

\* mine has returned NoBlockFound with transactions in the mempool.
C22_Witness ==
    /\ pc = "mined"
    /\ result.tag = "NoBlockFound"
    /\ miner_pool # Miner_new

\* C23: a block returned by a successful mine has the hash of the tip as
\* prev_hash, a hash that meets the target, and is accepted by add_block
\* on the chain mine was given.
C23_MinedAccepted ==
    [][(pc = "mining" /\ result'.tag = "Ok")
          => /\ result'.value.data.prev_hash = get_last_block(list).hash
             /\ validate_target(rules, result'.value.hash)
             /\ add_block_tag(list, rules, utxos, result'.value) = "Ok"]_vars

\* Whether the mempool mp holds neither a transaction of block nor one
\* that names an input some transaction of block names.
Reconciled(mp, block) ==
    \A h \in DOMAIN mp : \A j \in 1..Len(block.data.transactions) :
        /\ mp[h] # block.data.transactions[j]
        /\ get_utxos(mp[h]) \cap get_utxos(block.data.transactions[j]) = {}

\* C24: once mine has succeeded and add_block has accepted its block, the
\* mempool holds no transaction of the block and none sharing an input
\* with a transaction of the block.
C24_Reconciled ==
    [][(pc = "called" /\ result'.tag = "Ok") => Reconciled(miner_pool', arg)]_vars

\* add_block has accepted a mined block that carries a mempool transaction.
C24_Witness ==
    /\ pc = "done"
    /\ result.tag = "Ok"
    /\ Len(arg.data.transactions) > 1

\* The handler holds the miner mutex and waits for the chain mutex.
HandlerWaitsForChain == node.handler = "locked" /\ node.miner_lock = "handler"

\* The miner task holds the chain mutex and waits for the miner mutex.
MinerWaitsForMiner == node.miner_task = "locked" /\ node.chain_lock = "miner"

\* C25: no thread asks for the chain mutex while it holds the miner mutex,
\* so that the handler of POST /chain and the miner task never wait for
\* each other's mutex.
C25_LockOrder ==
    /\ ~HandlerWaitsForChain
    /\ ~(HandlerWaitsForChain /\ MinerWaitsForMiner)

\* C26: once SIGINT is delivered, with every thread scheduled fairly, the
\* miner task gets Stop and returns, the server stops, and the chain is
\* written to the file.
C26_ShutdownLiveness ==
    (node.signal # "none")
        ~> (node.miner_task = "exited" /\ node.server = "stopped" /\ node.main = "saved")

\* C27: from the start of mine until add_block has returned the miner task
\* holds the chain mutex; when add_block runs the tip is the block the
\* candidate was built on, and add_block does not fail on prev_hash.
C27_ChainLockHeld ==
    /\ node.miner_task \in {"locked", "mined"} => node.chain_lock = "miner"
    /\ node.miner_task = "mined"
          => /\ node.block.data.prev_hash = get_last_block(list).hash
             /\ add_block_tag(list, rules, utxos, node.block) # "InvalidPrevHash"

\* The miner task is about to run add_block with its candidate while a
\* POST /chain request is in its handler.
C27_Witness ==
    /\ node.miner_task = "mined"
    /\ node.handler = "parsed"

\* The step of the handler of POST /chain that ends add_tx with the answer
\* valid for tx: the pool is the one add_tx leaves, and a Mine command is
\* sent (to a miner task that still listens) exactly when tx is accepted.
IngressSignals(tx, valid) ==
    /\ valid \in {"T", "F"}
    /\ miner_pool' = add_tx_pool(miner_pool, tx, valid)
    /\ valid = "T" /\ node.miner_task \notin {"exited", "panicked"}
          => node'.channel = Append(node.channel, "Mine")
    /\ valid = "F" => node'.channel = node.channel

\* What the claims say of every step of the handler that ends a request
\* without a panic, and of the miner loop on a timeout and after mine.
LoopSteps ==
    /\ (node.handler = "locked" /\ node'.handler = "idle"
            /\ node'.miner_lock = "free" /\ ~node'.miner_poisoned)
          => \E tx \in PostChoices(list, utxos) :
                 IngressSignals(tx, validate_tx(list, tx, utxos))
    /\ (node.miner_task = "recv" /\ node.channel = << >>
            /\ node'.miner_task # "recv")
          => node'.miner_task = "mine"
    /\ (node.miner_task = "mine" /\ node'.miner_task = "locked")
          => node'.chain_lock = "miner"
    /\ (node.miner_task = "mined" /\ node'.miner_task # "mined")
          => /\ list' = add_block_list(list, add_block_tag(list, rules, utxos, node.block), node.block)
             /\ node'.miner_task \in {"recv", "panicked"}

ReplayValid(l, r) ==
    /\ validate_genesis(l, r) = "T"
    /\ \A i \in 2..Len(l) :
          validate_block(l, r, l[i], l[i - 1], UtxoPool_new(SubSeq(l, 1, i - 1))) = "T"

\* C29: validate_chain checks the blocks against a pool replayed from
\* empty and never against the pool of the chain: it returns the same
\* whatever that pool holds, true exactly when every block is valid against
\* the replayed pool of its predecessors, and true for a chain of two blocks
\* whose second block, acceptable to add_block, was appended without
\* updating the pool.
C29_ShadowPool ==
    [][pc = "validate_chain"
          => /\ \A pool \in {UtxoPool_default, UtxoPool_new(list)} :
                   Validated(validate_chain(list, rules, pool)) = result'
             /\ result'.tag = "T" <=> ReplayValid(list, rules)
             /\ (Len(list) = 2
                    /\ add_block_tag(<<list[1]>>, rules, utxos, list[2]) = "Ok")
                   => result'.tag = "T"]_vars

\* validate_chain has returned true for a chain of three blocks whose pool
\* was left at the genesis block.
C29_Witness ==
    /\ pc = "done"
    /\ result.tag = "T"
    /\ Len(list) = 3
    /\ utxos = UtxoPool_new(<<list[1]>>)
    /\ utxos # UtxoPool_new(list)

\* C30: the validation predicates return true or false and add_block
\* returns a tagged result for every input: no call aborts with a panic.
C30_Total == pc # "aborted"

\* Whether loaded is the chain l with the rules r and the pool.
LoadedAs(loaded, r, l, pool) ==
    /\ loaded.tag = "Ok"
    /\ loaded.rules = r
    /\ loaded.list = l
    /\ loaded.utxos = pool

\* C31: every chain add_block has grown from a new chain passes
\* validate_chain, so that from_serializable accepts its image and rebuilds
\* the pool the chain holds.
C31_ReachableValid ==
    pc \in {"idle", "done"}
        => /\ validate_chain(list, rules, utxos) = "T"
           /\ LoadedAs(from_serializable(SerializableChain_new(rules, list)),
                       rules, list, utxos)

\* add_block has appended a third block.
C31_Witness ==
    /\ pc = "done"
    /\ result.tag = "Ok"
    /\ Len(list) = 3

\* The positions <<block, transaction, input>> of the inputs of a chain, and
\* the output each names.
ChainInputPositions(l) ==
    UNION {{<<b, p[1], p[2]>> : p \in InputPositions(l[b])} : b \in 1..Len(l)}

ChainRefAt(l, p) == RefAt(l[p[1]], <<p[2], p[3]>>)

\* C32: over all transactions of all blocks of the chain, each
\* (tx_hash, output_index) is named by at most one input.
C32_SpentOnce ==
    \A p, q \in ChainInputPositions(list) :
        ChainRefAt(list, p) = ChainRefAt(list, q) => p = q

C34_NeverInvalidPrevHash ==
    [][pc = "called"
          => /\ result'.tag # "InvalidPrevHash"
             /\ arg.data.prev_hash # get_last_block(list).hash
                   => result'.tag = IF validate_target(rules, arg.hash)
                                    THEN "InvalidBlock"
                                    ELSE "TargetNotSatisfied"
             /\ result'.tag = "Ok"
                   => arg.data.prev_hash = get_last_block(list).hash]_vars

\* add_block has refused, for its prev_hash alone, a block that meets the
\* target and is well formed on another block than the tip.
C34_Witness ==
    /\ pc = "done"
    /\ result.tag = "InvalidBlock"
    /\ validate_target(rules, arg.hash)
    /\ arg.data.prev_hash # get_last_block(list).hash
    /\ validate_block_unlinked(list, rules, arg, get_last_block(list), utxos) = "T"

\* Whether some transaction of block names an output of an earlier
\* transaction of block.
ChainedSpend(block) ==
    \E k \in BlockKeys(block) :
        /\ Creators(block, k) # {}
        /\ Consumers(block, k) # {}
        /\ Min(Creators(block, k)) < Max(Consumers(block, k))

\* Whether every input of the blocks of l names an output of a transaction
\* of a strictly earlier block.
SpendsEarlier(l) ==
    \A b \in 1..Len(l) : \A p \in InputPositions(l[b]) :
        \E a \in 1..(b - 1) : RefAt(l[b], p) \in Created(<<l[a]>>)

\* C35: a block that meets the target and in which a transaction spends an
\* output created by an earlier transaction of the same block is answered
\* InvalidBlock, and every input of every block of the chain names an
\* output created in a strictly earlier block.
C35_AgainstPoolBefore ==
    [][pc = "called"
          => /\ (validate_target(rules, arg.hash) /\ ChainedSpend(arg))
                   => result'.tag = "InvalidBlock"
             /\ SpendsEarlier(list')]_vars

CarriesValidInputs(l, pool, tx) ==
    \E outputs \in SharedOutputs :
        validate_tx(l, Spend(tx.data.inputs, outputs), pool) = "T"

\* C37: a regular transaction that carries the inputs, signatures
\* included, of a valid transaction, and whose outputs total more than 0
\* and at most the total of its inputs, is accepted by validate_new_tx
\* whichever keys its outputs pay.
C37_OutputsFree ==
    [][(/\ pc = "validate_new_tx"
        /\ tx_is_hash_valid(arg)
        /\ arg.data.timestamp = None
        /\ CarriesValidInputs(list, utxos, arg)
        /\ TrueOut(arg) >= 1
        /\ TrueOut(arg) <= TrueIn(list, arg))
          => result'.tag = "T"]_vars

\* C38: when add_block rejects the block mine has returned, the closure
\* of the miner task ends with the regular transactions of that block,
\* which mine had removed, in the mempool again.
C38_RejectedPutBack ==
    [][(node.miner_task = "mined" /\ node'.miner_task = "recv" /\ list' = list)
          => \A j \in RegularTxs(node.block) :
                 /\ node.block.data.transactions[j].hash \in DOMAIN miner_pool'
                 /\ miner_pool'[node.block.data.transactions[j].hash]
                        = node.block.data.transactions[j]]_vars

\* Whether two inputs of tx name the same (hash, index).
RepeatsInput(tx) ==
    \E i, j \in 1..Len(tx.data.inputs) :
        /\ i # j
        /\ tx.data.inputs[i].hash = tx.data.inputs[j].hash
        /\ tx.data.inputs[i].index = tx.data.inputs[j].index

\* C39: add_tx returns false for a transaction that names the same
\* (hash, index) in two of its inputs and leaves the mempool alone.
C39_NoSelfDoubleSpend ==
    [][(pc = "add_tx" /\ RepeatsInput(arg))
          => /\ result'.tag = "F"
             /\ miner_pool' = miner_pool]_vars

\* C40: validate_new_tx never accepts a transaction whose outputs total
\* more than 2^w - 1 coins, w being the width of a value: the totals it
\* compares are the mathematical sums.
C40_NoWrap ==
    [][(pc = "validate_new_tx" /\ TrueOut(arg) > MaxValue)
          => result'.tag = "F"]_vars

====
